---- MODULE Spec2Model ----
(***************************************************************************)
(* Email sequence automation of the Hunter Agency CRM.                     *)
(*                                                                         *)
(* SequenceAutomationEngine (crm/email_engine/automation/__init__.py):     *)
(* enrollment of a lead in a sequence, the periodic process_sequences      *)
(* pass, the computation of the next send time with its adjustment to the  *)
(* sequence's sending schedule, and the send_scheduled_emails task.        *)
(*                                                                         *)
(* main.py: the process_pending_sequences job with the retry loop of       *)
(* AsyncSendGridClient.send_email, and the SendGrid webhook.               *)
(*                                                                         *)
(* Time is counted in minutes from a Monday 00:00 UTC, so that             *)
(* datetime.weekday() and datetime.hour are arithmetic on the timestamp.   *)
(***************************************************************************)
EXTENDS Integers, Sequences, FiniteSets, Bags, TLC

----------------------------------------------------------------------------
(* Time *)

MinutesPerHour == 60

MinutesPerDay == 1440

\* A nullable DateTime column holding no value.
NULL == -1

\* datetime.weekday(): Monday is 0, Sunday is 6.
Weekday(t) == (t \div MinutesPerDay) % 7

\* datetime.hour
Hour(t) == (t % MinutesPerDay) \div MinutesPerHour

\* datetime.replace(hour=h, minute=0, second=0)
ReplaceHour(t, h) == (t \div MinutesPerDay) * MinutesPerDay + h * MinutesPerHour

\* timedelta(days=d, hours=h, minutes=m)
Timedelta(d, h, m) == d * MinutesPerDay + h * MinutesPerHour + m

----------------------------------------------------------------------------
(* Rows of the sequence definition store, read-only to the engine *)

ACTIVE == "active"

PAUSED == "paused"

COMPLETED == "completed"

STOPPED == "stopped"

\* EmailStatus values the engine and the dispatcher write.
SCHEDULED == "scheduled"

SENT == "sent"

BOUNCED == "bounced"

\* A bounce_reason column holding no value.
NoReason == "none"

\* schedule.get('business_days', [0, 1, 2, 3, 4]) and
\* schedule.get('business_hours', [9, 17]) of an empty sending_schedule.
DefaultSchedule ==
    [business_days |-> {0, 1, 2, 3, 4}, business_hours |-> <<9, 17>>]

\* email_sequences rows: one sequence, targeted at hot and warm leads.
EmailSequences ==
    (1 :> [id |-> 1,
           target_grades |-> {"hot", "warm"},
           sending_schedule |-> DefaultSchedule])

\* sequence_steps rows of sequence 1.  Step 1 carries a send condition
\* (required_grade), step 2 carries none.
SequenceSteps ==
    (1 :> (1 :> [step_number |-> 1, delay_days |-> 0, delay_hours |-> 0,
                 delay_minutes |-> 5, has_conditions |-> TRUE]
        @@ 2 :> [step_number |-> 2, delay_days |-> 3, delay_hours |-> 0,
                 delay_minutes |-> 0, has_conditions |-> FALSE]))

\* leads rows: lead 1 matches the targeting of sequence 1, lead 2 does not.
Leads ==
    (1 :> [id |-> 1, grade |-> "hot"] @@ 2 :> [id |-> 2, grade |-> "cold"])

\* Ids that callers pass to enroll_lead_in_sequence; lead 3 is not stored.
LeadIds == {1, 2, 3}

SequenceIds == {1}

\* db.query(SequenceStep).filter(sequence_id == s, step_number == n).first()
HasStep(sequence_id, n) ==
    /\ sequence_id \in DOMAIN SequenceSteps
    /\ n \in DOMAIN SequenceSteps[sequence_id]

StepOf(sequence_id, n) == SequenceSteps[sequence_id][n]

\* The largest step number a sequence defines (0 when it has no step).
MaxStepNumber(sequence_id) ==
    IF sequence_id \in DOMAIN SequenceSteps
         /\ DOMAIN SequenceSteps[sequence_id] # {}
    THEN CHOOSE n \in DOMAIN SequenceSteps[sequence_id] :
             \A m \in DOMAIN SequenceSteps[sequence_id] : m <= n
    ELSE 0

----------------------------------------------------------------------------
(* Send-time computation *)

\* while send_time.weekday() not in business_days: send_time += 1 day
RECURSIVE AdvanceToBusinessDay(_, _)
AdvanceToBusinessDay(send_time, business_days) ==
    IF Weekday(send_time) \in business_days
    THEN send_time
    ELSE AdvanceToBusinessDay(send_time + MinutesPerDay, business_days)

\* The adjustment with the hour of the next-day branch left as it was.
AdjustKeepingHour(send_time, sequence) ==
    LET business_days == sequence.sending_schedule.business_days
        business_hours == sequence.sending_schedule.business_hours
        t1 == AdvanceToBusinessDay(send_time, business_days)
    IN  IF Hour(t1) < business_hours[1]
        THEN ReplaceHour(t1, business_hours[1])
        ELSE IF Hour(t1) >= business_hours[2]
             THEN AdvanceToBusinessDay(t1 + MinutesPerDay, business_days)
             ELSE t1

\* The adjustment without the weekday check after the move to the next day.
AdjustNoRecheck(send_time, sequence) ==
    LET business_days == sequence.sending_schedule.business_days
        business_hours == sequence.sending_schedule.business_hours
        t1 == AdvanceToBusinessDay(send_time, business_days)
    IN  IF Hour(t1) < business_hours[1]
        THEN ReplaceHour(t1, business_hours[1])
        ELSE IF Hour(t1) >= business_hours[2]
             THEN ReplaceHour(t1 + MinutesPerDay, business_hours[1])
             ELSE t1

\* SequenceAutomationEngine._adjust_for_schedule
AdjustForSchedule(send_time, sequence) ==
    LET business_days == sequence.sending_schedule.business_days
        business_hours == sequence.sending_schedule.business_hours
        t1 == AdvanceToBusinessDay(send_time, business_days)
    IN  IF Hour(t1) < business_hours[1]
        THEN ReplaceHour(t1, business_hours[1])
        ELSE IF Hour(t1) >= business_hours[2]
             THEN AdvanceToBusinessDay(
                      ReplaceHour(t1 + MinutesPerDay, business_hours[1]),
                      business_days)
             ELSE t1

\* The next send time left empty when the sequence has no such step.
CalculateNextEmailTimeNullAtEnd(sequence, step_number, utcnow) ==
    IF ~HasStep(sequence.id, step_number)
    THEN NULL
    ELSE LET step == StepOf(sequence.id, step_number)
             delay == Timedelta(step.delay_days, step.delay_hours,
                                step.delay_minutes)
         IN  AdjustForSchedule(utcnow + delay, sequence)

\* SequenceAutomationEngine._calculate_next_email_time, utcnow being the
\* reading of datetime.utcnow() at the call.
CalculateNextEmailTime(sequence, step_number, utcnow) ==
    IF ~HasStep(sequence.id, step_number)
    THEN utcnow
    ELSE LET step == StepOf(sequence.id, step_number)
             delay == Timedelta(step.delay_days, step.delay_hours,
                                step.delay_minutes)
         IN  AdjustForSchedule(utcnow + delay, sequence)

----------------------------------------------------------------------------
(* State *)

VARIABLES
    now,          \* the UTC clock, in minutes
    ticks,        \* clock advances so far
    enrollments,  \* sequence_enrollments rows, the row id being the index
    emails,       \* emails rows, the row id being the index
    epc,          \* position of each enroll_lead_in_sequence caller
    eargs,        \* (lead_id, sequence_id) of each caller's current call
    eret,         \* value returned by each caller's last call
    ppc,          \* position of each process_sequences worker
    batch,        \* ready_enrollments still to be handled by each worker,
                  \* as loaded by its query: [id, current_step]
    fresh,        \* the worker's session has not committed since its query
    cur,          \* the enrollment, and the step, whose Email row the worker
                  \* has committed and which it is about to advance
    stats,        \* the stats dictionary of each worker's last pass
    dpc,          \* position of each send_scheduled_emails run
    dbatch,       \* ids of the ready_emails each run has still to send
    dcur,         \* the email a run has handed to the transport, with the
                  \* result the transport returned
    sends,        \* transport calls made so far for each email id
    leads,        \* main.py: status of each row of leads, by lead id
    lead_sequences,   \* main.py: the lead_sequences row of each lead
    email_campaigns,  \* main.py: email_campaigns rows, the id being the index
    mpc,          \* main.py: position of the process_pending_sequences job
    pending,      \* main.py: rows of the job's query still to be handled
    attempt,      \* main.py: loop variable of send_email
    result,       \* main.py: the dictionary send_email returned
    calls,        \* main.py: client.post calls of the current send_email call
    events,       \* main.py: webhook events handled so far
    sc_profile,   \* scoring: the profile handed to score_profile
    sc_pc,        \* scoring: whether score_profile has returned
    sc_result,    \* scoring: the dictionary score_profile returned
    cl_a,         \* scoring: a score handed to _classify_lead
    cl_b,         \* scoring: another score handed to _classify_lead
    cl_out,       \* scoring: the classifications of the two scores
    pipeline_leads, \* qualification: pipeline_leads rows, the id being the index
    q_pc,         \* qualification: position of the bulk_qualify_leads call
    q_limit,      \* qualification: the limit of the bulk_qualify_leads call
    q_selected,   \* qualification: lead_ids as the query of the call returned them
    q_results,    \* qualification: the results list of the call
    q_arg,        \* qualification: the lead id of the last qualify_lead call made on its own
    q_ret,        \* qualification: what that call returned
    crm_leads,    \* smart pipeline: the leads table of LeadService, by id
    crm_ret,      \* smart pipeline: the response to the last request
    crm_deleted,  \* smart pipeline: ids whose DELETE request has succeeded
    slept,        \* main.py: seconds the current send_email call has spent in asyncio.sleep
    b_pass,       \* batch limits: the pass that is run
    b_due,        \* batch limits: the rows that are due to the pass
    b_ready,      \* batch limits: the rows the query of the pass returned
    b_done,       \* batch limits: the rows the loop of the pass has handled
    b_pc,         \* batch limits: position of the pass
    h_pc,         \* handling: position of the _process_enrollment call
    h_id,         \* handling: id of the enrollment the call was given
    h_calls,      \* handling: what the call has done so far, in order
    h_out,        \* handling: how the last call ended
    user,         \* auth: the users row of the one user stored
    auth_ret,     \* auth: the last call of authenticate_user and what it returned
    auth_wrong,   \* auth: calls with a wrong password since the last call with the right one
    auth_calls,   \* auth: calls of authenticate_user made so far
    adj_in,       \* send-time computation: the input timestamp
    adj_sched,    \* send-time computation: the sending_schedule
    adj_out,      \* send-time computation: the result
    adj_out2,     \* send-time computation: the result of a second adjustment
    adj_pc,       \* send-time computation: what has been computed
    adj_turns     \* send-time computation: turns of the weekday loop that is run

engineVars == <<now, ticks, enrollments, emails, epc, eargs, eret,
                ppc, batch, fresh, cur, stats>>

dispVars == <<dpc, dbatch, dcur, sends>>

mainVars == <<leads, lead_sequences, email_campaigns, mpc, pending, attempt,
              result, calls, events>>

scoreVars == <<sc_profile, sc_pc, sc_result, cl_a, cl_b, cl_out>>

pipeVars == <<pipeline_leads, q_pc, q_limit, q_selected, q_results, q_arg, q_ret, crm_leads, crm_ret, crm_deleted>>

clientVars == <<slept>>

batchVars == <<b_pass, b_due, b_ready, b_done, b_pc>>

handleVars == <<h_pc, h_id, h_calls, h_out>>

authVars == <<user, auth_ret, auth_wrong, auth_calls>>

adjVars == <<adj_in, adj_sched, adj_out, adj_out2, adj_pc, adj_turns>>

vars == <<now, ticks, enrollments, emails, epc, eargs, eret,
          ppc, batch, fresh, cur, stats,
          dpc, dbatch, dcur, sends,
          leads, lead_sequences, email_campaigns, mpc, pending, attempt,
          result, calls, events,
          sc_profile, sc_pc, sc_result, cl_a, cl_b, cl_out,
          pipeline_leads, q_pc, q_limit, q_selected, q_results, q_arg, q_ret, crm_leads, crm_ret, crm_deleted,
          slept,
          b_pass, b_due, b_ready, b_done, b_pc,
          h_pc, h_id, h_calls, h_out,
          user, auth_ret, auth_wrong, auth_calls,
          adj_in, adj_sched, adj_out, adj_out2, adj_pc, adj_turns>>

----------------------------------------------------------------------------
(* Bounds *)

\* Callers of enroll_lead_in_sequence that may run at once (the celery task
\* trigger_sequence_for_lead and SequenceManager.start_sequence_for_leads).
EnrollProcs == {"trigger", "batch"}

\* process_sequences workers that may run at once (the beat schedule and
\* the manual /automation/process endpoint).
PassProcs == {"beat", "manual"}

MaxEnrollments == 2

MaxTicks == 2

\* Email rows the engine may create in all.
MaxEmails == 3

\* send_scheduled_emails runs that may go on at once: the beat schedule
\* starts one every two minutes, whether or not the one before has ended.
DispatchProcs == {"first", "second"}

\* Transport calls that may be made for one email.
MaxSends == 2

\* Leads that may be posted to /leads of main.py.
MaxLeads == 2

\* email_campaigns rows that send_sequence_email may insert in all.
MaxCampaigns == 2

\* Events the SendGrid webhook may be called with in all.
MaxEvents == 1

\* Rows POST /leads of the pipeline API may insert into pipeline_leads.
MaxPipelineLeads == 3

\* The largest limit bulk_qualify_leads is called with.
MaxLimit == 2

\* The largest id the leads table of LeadService may give out.
MaxCrmId == 2

\* Rows that may be due to a pass beyond its limit.
MaxExcess == 1

\* The clock starts on a Friday at 16:56, four minutes before the end of
\* the default business hours.
StartTime == 4 * MinutesPerDay + 16 * MinutesPerHour + 56

\* The clock advances a week at a time.
TickMinutes == 7 * MinutesPerDay

----------------------------------------------------------------------------
(* Enrollment: SequenceAutomationEngine.enroll_lead_in_sequence *)

NoArgs == [lead_id |-> 0, sequence_id |-> 0]

\* The duplicate check looking for a PAUSED row instead of an ACTIVE one.
HasPausedEnrollment(rows, lead_id, sequence_id) ==
    \E i \in DOMAIN rows :
        /\ rows[i].lead_id = lead_id
        /\ rows[i].sequence_id = sequence_id
        /\ rows[i].status = PAUSED

\* The duplicate check looking for a row of the pair whatever its status.
HasAnyEnrollment(rows, lead_id, sequence_id) ==
    \E i \in DOMAIN rows :
        /\ rows[i].lead_id = lead_id
        /\ rows[i].sequence_id = sequence_id

\* db.query(SequenceEnrollment).filter(lead_id, sequence_id, ACTIVE).first()
HasActiveEnrollment(rows, lead_id, sequence_id) ==
    \E i \in DOMAIN rows :
        /\ rows[i].lead_id = lead_id
        /\ rows[i].sequence_id = sequence_id
        /\ rows[i].status = ACTIVE

\* The targeting check accepting every lead.
LeadMatchesAnyTargeting(lead, sequence) == TRUE

\* SequenceAutomationEngine._lead_matches_targeting; the sequences of the
\* model target grades only.
LeadMatchesTargeting(lead, sequence) ==
    sequence.target_grades # {} => lead.grade \in sequence.target_grades

\* An enrollment whose next_email_at is not adjusted to the schedule.
NewEnrollmentUnadjusted(lead_id, sequence_id, utcnow) ==
    [sequence_id |-> sequence_id,
     lead_id |-> lead_id,
     status |-> ACTIVE,
     current_step |-> 1,
     emails_sent |-> 0,
     completed_at |-> NULL,
     stopped_at |-> NULL,
     stop_reason |-> NoReason,
     next_email_at |->
         LET step == StepOf(sequence_id, 1)
         IN  utcnow + Timedelta(step.delay_days, step.delay_hours,
                                step.delay_minutes)]

\* SequenceEnrollment(sequence_id, lead_id, status=ACTIVE, current_step=1,
\* next_email_at=...), emails_sent taking the column default 0.
NewEnrollment(lead_id, sequence_id, utcnow) ==
    [sequence_id |-> sequence_id,
     lead_id |-> lead_id,
     status |-> ACTIVE,
     current_step |-> 1,
     emails_sent |-> 0,
     completed_at |-> NULL,
     stopped_at |-> NULL,
     stop_reason |-> NoReason,
     next_email_at |->
         CalculateNextEmailTime(EmailSequences[sequence_id], 1, utcnow)]

\* The call up to the point where it either returns False or has decided
\* to create the enrollment: the duplicate query, the sequence and lead
\* queries, the targeting check.
EnrollCheck(p, lead_id, sequence_id) ==
    /\ epc[p] = "idle"
    /\ Len(enrollments) + Cardinality({q \in EnrollProcs : epc[q] = "insert"})
           < MaxEnrollments
    /\ eargs' = [eargs EXCEPT ![p] =
                     [lead_id |-> lead_id, sequence_id |-> sequence_id]]
    /\ IF HasActiveEnrollment(enrollments, lead_id, sequence_id)
       THEN /\ eret' = [eret EXCEPT ![p] = "False"]
            /\ epc' = epc
       ELSE IF sequence_id \notin DOMAIN EmailSequences
                 \/ lead_id \notin DOMAIN Leads
       THEN /\ eret' = [eret EXCEPT ![p] = "False"]
            /\ epc' = epc
       ELSE IF ~LeadMatchesTargeting(Leads[lead_id],
                                     EmailSequences[sequence_id])
       THEN /\ eret' = [eret EXCEPT ![p] = "False"]
            /\ epc' = epc
       ELSE /\ eret' = [eret EXCEPT ![p] = "none"]
            /\ epc' = [epc EXCEPT ![p] = "insert"]
    /\ UNCHANGED <<now, ticks, enrollments, emails,
                   ppc, batch, fresh, cur, stats>>
    /\ UNCHANGED dispVars
    /\ UNCHANGED mainVars
    /\ UNCHANGED adjVars
    /\ UNCHANGED scoreVars
    /\ UNCHANGED pipeVars
    /\ UNCHANGED clientVars
    /\ UNCHANGED batchVars
    /\ UNCHANGED handleVars
    /\ UNCHANGED authVars

\* db.add(enrollment); db.commit(); return True
EnrollInsert(p) ==
    /\ epc[p] = "insert"
    /\ enrollments' = Append(enrollments,
           NewEnrollment(eargs[p].lead_id, eargs[p].sequence_id, now))
    /\ eret' = [eret EXCEPT ![p] = "True"]
    /\ epc' = [epc EXCEPT ![p] = "idle"]
    /\ UNCHANGED <<now, ticks, emails, eargs,
                   ppc, batch, fresh, cur, stats>>
    /\ UNCHANGED dispVars
    /\ UNCHANGED mainVars
    /\ UNCHANGED adjVars
    /\ UNCHANGED scoreVars
    /\ UNCHANGED pipeVars
    /\ UNCHANGED clientVars
    /\ UNCHANGED batchVars
    /\ UNCHANGED handleVars
    /\ UNCHANGED authVars

----------------------------------------------------------------------------
(* Processing: SequenceAutomationEngine.process_sequences *)

\* .limit(100) of the ready_enrollments query
BatchLimit == 100

\* The worker is not between the commit of an Email row and the update of
\* its enrollment.
NoItem == [id |-> 0, current_step |-> 0]

\* stats = {'enrollments_processed': 0, 'emails_scheduled': 0, 'errors': 0}.
\* emails_scheduled is never written afterwards, and enrollments_processed
\* is the number of enrollments the loop has gone past less the errors; the
\* model keeps the errors entry.
NoStats == [errors |-> 0]

\* The rows the ready_enrollments query selects.
ReadyEnrollments ==
    {i \in DOMAIN enrollments :
        /\ enrollments[i].status = ACTIVE
        /\ enrollments[i].next_email_at # NULL
        /\ enrollments[i].next_email_at <= now}

Min(a, b) == IF a < b THEN a ELSE b

\* The query of process_sequences: the session loads up to BatchLimit of
\* the ACTIVE rows that are due; the query has no ORDER BY, so which rows,
\* and in which order the loop takes them, is not determined.  A pass that
\* finds no row changes nothing.
ProcessSequencesQuery(p) ==
    /\ ppc[p] = "idle"
    /\ ReadyEnrollments # {}
    /\ \E rows \in SUBSET ReadyEnrollments :
           /\ Cardinality(rows) = Min(Cardinality(ReadyEnrollments), BatchLimit)
           /\ batch' = [batch EXCEPT ![p] =
                  {[id |-> i, current_step |-> enrollments[i].current_step] :
                      i \in rows}]
    /\ fresh' = [fresh EXCEPT ![p] = TRUE]
    /\ ppc' = [ppc EXCEPT ![p] = "run"]
    /\ stats' = [stats EXCEPT ![p] = NoStats]
    /\ UNCHANGED <<now, ticks, enrollments, emails, epc, eargs, eret, cur>>
    /\ UNCHANGED dispVars
    /\ UNCHANGED mainVars
    /\ UNCHANGED adjVars
    /\ UNCHANGED scoreVars
    /\ UNCHANGED pipeVars
    /\ UNCHANGED clientVars
    /\ UNCHANGED batchVars
    /\ UNCHANGED handleVars
    /\ UNCHANGED authVars

\* enrollment.current_step as the worker's session sees it: the value its
\* query loaded, or the stored value once a commit has expired the object.
LoadedCurrentStep(p, item) ==
    IF fresh[p] THEN item.current_step ELSE enrollments[item.id].current_step

\* _process_enrollment has returned: the for loop of process_sequences goes
\* on to the next enrollment, the pass returning its stats after the last
\* one.
NextItem(p, item) ==
    /\ batch' = [batch EXCEPT ![p] = batch[p] \ {item}]
    /\ cur' = [cur EXCEPT ![p] = NoItem]
    /\ stats' = stats
    /\ ppc' = [ppc EXCEPT ![p] =
                  IF batch[p] \ {item} = {} THEN "idle" ELSE "run"]

\* Email(enrollment_id=enrollment.id, sequence_step_id=step.id,
\* status=SCHEDULED, scheduled_at=utcnow + 1 minute) of
\* _create_email_from_template; the other columns are null.
NewEmail(enrollment_id, step_number, utcnow) ==
    [enrollment_id |-> enrollment_id,
     step_number |-> step_number,
     status |-> SCHEDULED,
     scheduled_at |-> utcnow + Timedelta(0, 0, 1),
     sent_at |-> NULL,
     provider_message_id |-> NULL,
     bounce_reason |-> NoReason]

\* _process_enrollment up to its first commit.  ok is the outcome of
\* _check_step_conditions, which reads the lead's score and grade and the
\* replies to its emails; a step without conditions always passes.
ProcessEnrollment(p, ok) ==
    /\ ppc[p] = "run"
    /\ \E item \in batch[p] :
       LET e == item.id
           cs == LoadedCurrentStep(p, item)
           sequence_id == enrollments[e].sequence_id
       IN  IF ~HasStep(sequence_id, cs)
           THEN \* no more steps: complete the sequence
                /\ ok
                /\ enrollments' = [enrollments EXCEPT
                       ![e].status = COMPLETED,
                       ![e].completed_at = now]
                /\ NextItem(p, item)
                /\ UNCHANGED emails
           ELSE IF ~ok
           THEN \* _advance_to_next_step
                /\ StepOf(sequence_id, cs).has_conditions
                /\ enrollments' = [enrollments EXCEPT
                       ![e].current_step = cs + 1,
                       ![e].next_email_at = CalculateNextEmailTime(
                           EmailSequences[sequence_id], cs + 1, now)]
                /\ NextItem(p, item)
                /\ UNCHANGED emails
           ELSE \* _create_email_from_template: the Email row is committed
                /\ Len(emails) < MaxEmails
                /\ emails' = Append(emails, NewEmail(e, cs, now))
                /\ ppc' = [ppc EXCEPT ![p] = "update"]
                /\ cur' = [cur EXCEPT ![p] =
                       [id |-> e, current_step |-> cs]]
                /\ UNCHANGED <<enrollments, batch, stats>>
    /\ fresh' = [fresh EXCEPT ![p] = FALSE]
    /\ UNCHANGED <<now, ticks, epc, eargs, eret>>
    /\ UNCHANGED dispVars
    /\ UNCHANGED mainVars
    /\ UNCHANGED adjVars
    /\ UNCHANGED scoreVars
    /\ UNCHANGED pipeVars
    /\ UNCHANGED clientVars
    /\ UNCHANGED batchVars
    /\ UNCHANGED handleVars
    /\ UNCHANGED authVars

\* "if email:" of _process_enrollment: the enrollment, expired by the commit
\* of the Email row, is reloaded, advanced and committed.
UpdateEnrollment(p) ==
    /\ ppc[p] = "update"
    /\ LET e == cur[p].id
           row == enrollments[e]
           item == CHOOSE it \in batch[p] : it.id = e
       IN  /\ enrollments' = [enrollments EXCEPT
                  ![e].current_step = row.current_step + 1,
                  ![e].emails_sent = row.emails_sent + 1,
                  ![e].next_email_at = CalculateNextEmailTime(
                      EmailSequences[row.sequence_id],
                      row.current_step + 1, now)]
           /\ NextItem(p, item)
    /\ UNCHANGED <<now, ticks, emails, epc, eargs, eret, fresh>>
    /\ UNCHANGED dispVars
    /\ UNCHANGED mainVars
    /\ UNCHANGED adjVars
    /\ UNCHANGED scoreVars
    /\ UNCHANGED pipeVars
    /\ UNCHANGED clientVars
    /\ UNCHANGED batchVars
    /\ UNCHANGED handleVars
    /\ UNCHANGED authVars

\* The loop dropping the rest of the batch when _process_enrollment raises.
RaiseAbortsBatch(p) ==
    /\ ppc[p] = "run"
    /\ batch[p] # {}
    /\ batch' = [batch EXCEPT ![p] = {}]
    /\ ppc' = [ppc EXCEPT ![p] = "idle"]
    /\ stats' = [stats EXCEPT ![p].errors = @ + 1]
    /\ fresh' = [fresh EXCEPT ![p] = FALSE]
    /\ UNCHANGED <<now, ticks, enrollments, emails, epc, eargs, eret, cur>>
    /\ UNCHANGED dispVars
    /\ UNCHANGED mainVars
    /\ UNCHANGED adjVars
    /\ UNCHANGED scoreVars
    /\ UNCHANGED pipeVars
    /\ UNCHANGED clientVars
    /\ UNCHANGED batchVars
    /\ UNCHANGED handleVars
    /\ UNCHANGED authVars

\* _process_enrollment raises before it has written anything (a query that
\* fails, a comparison with a null score in _check_step_conditions): the
\* except clause of the loop counts an error and the loop goes on.
ProcessEnrollmentRaises(p) ==
    /\ ppc[p] = "run"
    /\ \E item \in batch[p] :
           /\ batch' = [batch EXCEPT ![p] = batch[p] \ {item}]
           /\ ppc' = [ppc EXCEPT ![p] =
                         IF batch[p] \ {item} = {} THEN "idle" ELSE "run"]
    /\ stats' = [stats EXCEPT ![p].errors = @ + 1]
    /\ fresh' = [fresh EXCEPT ![p] = FALSE]
    /\ UNCHANGED <<now, ticks, enrollments, emails, epc, eargs, eret, cur>>
    /\ UNCHANGED dispVars
    /\ UNCHANGED mainVars
    /\ UNCHANGED adjVars
    /\ UNCHANGED scoreVars
    /\ UNCHANGED pipeVars
    /\ UNCHANGED clientVars
    /\ UNCHANGED batchVars
    /\ UNCHANGED handleVars
    /\ UNCHANGED authVars

\* The worker process is killed while its pass is running: what it has
\* committed stays, the rest of the pass is not run.
Abort(p) ==
    /\ ppc[p] \in {"run", "update"}
    /\ ppc' = [ppc EXCEPT ![p] = "idle"]
    /\ batch' = [batch EXCEPT ![p] = {}]
    /\ cur' = [cur EXCEPT ![p] = NoItem]
    /\ fresh' = [fresh EXCEPT ![p] = FALSE]
    /\ stats' = [stats EXCEPT ![p] = NoStats]
    /\ UNCHANGED <<now, ticks, enrollments, emails, epc, eargs, eret>>
    /\ UNCHANGED dispVars
    /\ UNCHANGED mainVars
    /\ UNCHANGED adjVars
    /\ UNCHANGED scoreVars
    /\ UNCHANGED pipeVars
    /\ UNCHANGED clientVars
    /\ UNCHANGED batchVars
    /\ UNCHANGED handleVars
    /\ UNCHANGED authVars

\* Reasons given to stop.
StopReasons == {"replied"}

\* stop recording the reason and the timestamp without changing the status.
StopKeepingStatus(i, reason) ==
    /\ i \in DOMAIN enrollments
    /\ enrollments[i].status \in {ACTIVE, PAUSED}
    /\ enrollments' = [enrollments EXCEPT
           ![i].stopped_at = now,
           ![i].stop_reason = reason]
    /\ UNCHANGED <<now, ticks, emails, epc, eargs, eret,
                   ppc, batch, fresh, cur, stats>>
    /\ UNCHANGED dispVars
    /\ UNCHANGED mainVars
    /\ UNCHANGED adjVars
    /\ UNCHANGED scoreVars
    /\ UNCHANGED pipeVars
    /\ UNCHANGED clientVars
    /\ UNCHANGED batchVars
    /\ UNCHANGED handleVars
    /\ UNCHANGED authVars

\* stop(enrollment, reason): an ACTIVE or PAUSED enrollment becomes STOPPED
\* with the reason and the timestamp; an enrollment that is STOPPED or
\* COMPLETED is left as it is.
Stop(i, reason) ==
    /\ i \in DOMAIN enrollments
    /\ enrollments' =
           IF enrollments[i].status \in {ACTIVE, PAUSED}
           THEN [enrollments EXCEPT
                    ![i].status = STOPPED,
                    ![i].stopped_at = now,
                    ![i].stop_reason = reason]
           ELSE enrollments
    /\ UNCHANGED <<now, ticks, emails, epc, eargs, eret,
                   ppc, batch, fresh, cur, stats>>
    /\ UNCHANGED dispVars
    /\ UNCHANGED mainVars
    /\ UNCHANGED adjVars
    /\ UNCHANGED scoreVars
    /\ UNCHANGED pipeVars
    /\ UNCHANGED clientVars
    /\ UNCHANGED batchVars
    /\ UNCHANGED handleVars
    /\ UNCHANGED authVars

----------------------------------------------------------------------------
(* Delivery: the celery task send_scheduled_emails *)

\* .limit(50) of the ready_emails query
SendLimit == 50

\* result.error of a delivery that failed: the text of the exception the
\* transport raised.
DeliveryError == "error"

\* The run is not between a transport call and the commit of its outcome.
NoDelivery == [id |-> 0, success |-> FALSE, message_id |-> NULL]

\* The rows the ready_emails query selects.
ReadyEmails ==
    {k \in DOMAIN emails :
        /\ emails[k].status = SCHEDULED
        /\ emails[k].scheduled_at <= now}

\* Transport calls made so far, all emails together.
RECURSIVE TotalSends(_)
TotalSends(n) == IF n = 0 THEN 0 ELSE sends[n] + TotalSends(n - 1)

\* The query of send_scheduled_emails: the session loads up to SendLimit of
\* the SCHEDULED rows whose time has come.  A run that finds no row changes
\* nothing.
SendQuery(d) ==
    /\ dpc[d] = "idle"
    /\ ReadyEmails # {}
    /\ \E rows \in SUBSET ReadyEmails :
           /\ Cardinality(rows) = Min(Cardinality(ReadyEmails), SendLimit)
           /\ dbatch' = [dbatch EXCEPT ![d] = rows]
    /\ dpc' = [dpc EXCEPT ![d] = "run"]
    /\ UNCHANGED <<dcur, sends>>
    /\ UNCHANGED engineVars
    /\ UNCHANGED mainVars
    /\ UNCHANGED adjVars
    /\ UNCHANGED scoreVars
    /\ UNCHANGED pipeVars
    /\ UNCHANGED clientVars
    /\ UNCHANGED batchVars
    /\ UNCHANGED handleVars
    /\ UNCHANGED authVars

\* engine.delivery_service.send_email for the next email of the loop: one
\* transport call, which succeeds (the message id being that of the call)
\* or fails with an error.
DeliverEmail(d, success) ==
    /\ dpc[d] = "run"
    /\ \E k \in dbatch[d] :
           /\ sends[k] < MaxSends
           /\ sends' = [sends EXCEPT ![k] = @ + 1]
           /\ dcur' = [dcur EXCEPT ![d] =
                  [id |-> k,
                   success |-> success,
                   message_id |-> IF success
                                  THEN TotalSends(MaxEmails) + 1
                                  ELSE NULL]]
    /\ dpc' = [dpc EXCEPT ![d] = "record"]
    /\ UNCHANGED dbatch
    /\ UNCHANGED engineVars
    /\ UNCHANGED mainVars
    /\ UNCHANGED adjVars
    /\ UNCHANGED scoreVars
    /\ UNCHANGED pipeVars
    /\ UNCHANGED clientVars
    /\ UNCHANGED batchVars
    /\ UNCHANGED handleVars
    /\ UNCHANGED authVars

\* The outcome written without looking at the row: it is what RecordOutcome
\* does, kept apart for reference by the properties.
OutcomeRow(row, delivery, utcnow) ==
    IF delivery.success
    THEN [row EXCEPT !.status = SENT,
                     !.sent_at = utcnow,
                     !.provider_message_id = delivery.message_id]
    ELSE [row EXCEPT !.status = BOUNCED,
                     !.bounce_reason = DeliveryError]

\* "if result.success: ... else: ..." and db.commit(): the outcome of the
\* transport call is written to the email row, then the loop pauses and
\* goes on to the next email, the run returning its stats after the last.
RecordOutcome(d) ==
    /\ dpc[d] = "record"
    /\ LET k == dcur[d].id
       IN  /\ emails' = [emails EXCEPT ![k] = OutcomeRow(emails[k], dcur[d], now)]
           /\ dbatch' = [dbatch EXCEPT ![d] = dbatch[d] \ {k}]
           /\ dpc' = [dpc EXCEPT ![d] =
                         IF dbatch[d] \ {k} = {} THEN "idle" ELSE "run"]
    /\ dcur' = [dcur EXCEPT ![d] = NoDelivery]
    /\ UNCHANGED <<now, ticks, enrollments, epc, eargs, eret,
                   ppc, batch, fresh, cur, stats, sends>>
    /\ UNCHANGED mainVars
    /\ UNCHANGED adjVars
    /\ UNCHANGED scoreVars
    /\ UNCHANGED pipeVars
    /\ UNCHANGED clientVars
    /\ UNCHANGED batchVars
    /\ UNCHANGED handleVars
    /\ UNCHANGED authVars

\* The worker process is killed while its run is going on: what it has
\* committed stays, the rest of the run is not done.
DispatcherCrash(d) ==
    /\ dpc[d] \in {"run", "record"}
    /\ dpc' = [dpc EXCEPT ![d] = "idle"]
    /\ dbatch' = [dbatch EXCEPT ![d] = {}]
    /\ dcur' = [dcur EXCEPT ![d] = NoDelivery]
    /\ UNCHANGED sends
    /\ UNCHANGED engineVars
    /\ UNCHANGED mainVars
    /\ UNCHANGED adjVars
    /\ UNCHANGED scoreVars
    /\ UNCHANGED pipeVars
    /\ UNCHANGED clientVars
    /\ UNCHANGED batchVars
    /\ UNCHANGED handleVars
    /\ UNCHANGED authVars

----------------------------------------------------------------------------

\* Time passes.
Tick ==
    /\ ticks < MaxTicks
    /\ now' = now + TickMinutes
    /\ ticks' = ticks + 1
    /\ UNCHANGED <<enrollments, emails, epc, eargs, eret,
                   ppc, batch, fresh, cur, stats>>
    /\ UNCHANGED dispVars
    /\ UNCHANGED mainVars
    /\ UNCHANGED adjVars
    /\ UNCHANGED scoreVars
    /\ UNCHANGED pipeVars
    /\ UNCHANGED clientVars
    /\ UNCHANGED batchVars
    /\ UNCHANGED handleVars
    /\ UNCHANGED authVars

----------------------------------------------------------------------------
(* main.py: lead sequences sent through SendGrid *)

MainLeads == 1..MaxLeads

\* range(3) of the retry loop of AsyncSendGridClient.send_email
MaxAttempts == 3

\* LIMIT 50 of the query of process_pending_sequences
PendingLimit == 50

\* "Stop after 5 steps"
LastStep == 5

\* timedelta(days=3) between two steps of a lead sequence
StepDelay == Timedelta(3, 0, 0)

\* What one client.post may do: answer 202, answer 429, answer with another
\* status code, or raise.
Accepted == 202
RateLimited == 429
Rejected == 400
Raised == 0
Responses == {Accepted, RateLimited, Rejected, Raised}

\* response.text of a rejected request, str(e) of a raised exception
ResponseText == "response text"
ExceptionText == "exception text"
MaxRetriesText == "Max retries exceeded"

\* A message id no email_campaigns row holds.
UnknownMessageId == 0

NoSequence == [status |-> "none", current_step |-> 0, next_send_at |-> NULL]

NoResult == [status |-> "none", message_id |-> NULL, error |-> NoReason]

\* POST /leads: create_lead_async inserts the lead, which fails for an email
\* already present, and the endpoint then inserts the lead_sequences row.
CreateLead(l) ==
    /\ leads[l] = "absent"
    /\ leads' = [leads EXCEPT ![l] = "new"]
    /\ lead_sequences' = [lead_sequences EXCEPT ![l] =
           [status |-> "active", current_step |-> 0, next_send_at |-> now]]
    /\ UNCHANGED <<email_campaigns, mpc, pending, attempt, result, calls,
                   events>>
    /\ UNCHANGED engineVars
    /\ UNCHANGED dispVars
    /\ UNCHANGED adjVars
    /\ UNCHANGED scoreVars
    /\ UNCHANGED pipeVars
    /\ UNCHANGED clientVars
    /\ UNCHANGED batchVars
    /\ UNCHANGED handleVars
    /\ UNCHANGED authVars

\* The lead sequences the query of process_pending_sequences selects.
PendingSequences ==
    {l \in MainLeads :
        /\ lead_sequences[l].status = "active"
        /\ lead_sequences[l].next_send_at # NULL
        /\ lead_sequences[l].next_send_at <= now}

\* The orders in which a query without ORDER BY may return the rows S.
Orders(S) ==
    {q \in [1..Cardinality(S) -> S] :
        \A i, j \in 1..Cardinality(S) : q[i] = q[j] => i = j}

\* process_pending_sequences up to the first call of send_sequence_email.
\* The scheduler runs one instance of the job at a time.
ProcessPendingQuery ==
    /\ mpc = "idle"
    /\ \E q \in Orders(PendingSequences) :
           pending' = [i \in 1..Min(Len(q), PendingLimit) |->
                          [lead_id |-> q[i],
                           current_step |-> lead_sequences[q[i]].current_step]]
    /\ mpc' = IF PendingSequences = {} THEN "idle" ELSE "send"
    /\ attempt' = 0
    /\ calls' = 0
    /\ slept' = 0
    /\ result' = NoResult
    /\ UNCHANGED <<leads, lead_sequences, email_campaigns, events>>
    /\ UNCHANGED <<now, ticks>>
    /\ UNCHANGED <<enrollments, emails, epc, eargs, eret,
                   ppc, batch, fresh, cur, stats>>
    /\ UNCHANGED dispVars
    /\ UNCHANGED adjVars
    /\ UNCHANGED scoreVars
    /\ UNCHANGED pipeVars
    /\ UNCHANGED batchVars
    /\ UNCHANGED handleVars
    /\ UNCHANGED authVars

\* The X-Message-Id of the next accepted message.
NextMessageId == Len(email_campaigns) + 1

\* A loop of four turns.
PostWithFourAttempts(response) ==
    /\ mpc = "send"
    /\ Len(email_campaigns) < MaxCampaigns
    /\ calls' = calls + 1
    /\ IF response = Accepted
       THEN /\ result' = [status |-> "sent", message_id |-> NextMessageId,
                          error |-> NoReason]
            /\ mpc' = "log"
            /\ attempt' = attempt
            /\ slept' = slept
       ELSE IF response = RateLimited
       THEN /\ slept' = slept + 2 ^ attempt
            /\ IF attempt + 1 < MaxAttempts + 1
               THEN /\ attempt' = attempt + 1
                    /\ UNCHANGED <<mpc, result>>
               ELSE /\ result' = [status |-> "failed", message_id |-> NULL,
                                  error |-> MaxRetriesText]
                    /\ mpc' = "log"
                    /\ attempt' = attempt
       ELSE IF response = Raised
       THEN IF attempt = 2
            THEN /\ result' = [status |-> "error", message_id |-> NULL,
                               error |-> ExceptionText]
                 /\ mpc' = "log"
                 /\ attempt' = attempt
                 /\ slept' = slept
            ELSE /\ attempt' = attempt + 1
                 /\ slept' = slept + 2 ^ attempt
                 /\ UNCHANGED <<mpc, result>>
       ELSE /\ result' = [status |-> "failed", message_id |-> NULL,
                          error |-> ResponseText]
            /\ mpc' = "log"
            /\ attempt' = attempt
            /\ slept' = slept
    /\ UNCHANGED <<leads, lead_sequences, email_campaigns, pending, events>>
    /\ UNCHANGED engineVars
    /\ UNCHANGED dispVars
    /\ UNCHANGED adjVars
    /\ UNCHANGED scoreVars
    /\ UNCHANGED pipeVars
    /\ UNCHANGED batchVars
    /\ UNCHANGED handleVars
    /\ UNCHANGED authVars

\* One turn of the loop of AsyncSendGridClient.send_email: a client.post and
\* what follows from its outcome.
Post(response) ==
    /\ mpc = "send"
    /\ Len(email_campaigns) < MaxCampaigns
    /\ calls' = calls + 1
    /\ IF response = Accepted
       THEN /\ result' = [status |-> "sent", message_id |-> NextMessageId,
                          error |-> NoReason]
            /\ mpc' = "log"
            /\ attempt' = attempt
            /\ slept' = slept
       ELSE IF response = RateLimited
       THEN /\ slept' = slept + 2 ^ attempt
            /\ IF attempt + 1 < MaxAttempts
               THEN /\ attempt' = attempt + 1
                    /\ UNCHANGED <<mpc, result>>
               ELSE /\ result' = [status |-> "failed", message_id |-> NULL,
                                  error |-> MaxRetriesText]
                    /\ mpc' = "log"
                    /\ attempt' = attempt
       ELSE IF response = Raised
       THEN IF attempt = 2
            THEN /\ result' = [status |-> "error", message_id |-> NULL,
                               error |-> ExceptionText]
                 /\ mpc' = "log"
                 /\ attempt' = attempt
                 /\ slept' = slept
            ELSE /\ attempt' = attempt + 1
                 /\ slept' = slept + 2 ^ attempt
                 /\ UNCHANGED <<mpc, result>>
       ELSE /\ result' = [status |-> "failed", message_id |-> NULL,
                          error |-> ResponseText]
            /\ mpc' = "log"
            /\ attempt' = attempt
            /\ slept' = slept
    /\ UNCHANGED <<leads, lead_sequences, email_campaigns, pending, events>>
    /\ UNCHANGED engineVars
    /\ UNCHANGED dispVars
    /\ UNCHANGED adjVars
    /\ UNCHANGED scoreVars
    /\ UNCHANGED pipeVars
    /\ UNCHANGED batchVars
    /\ UNCHANGED handleVars
    /\ UNCHANGED authVars

\* The row send_sequence_email inserts into email_campaigns. The columns the
\* statement does not name take their defaults.
NewCampaign(sequence_data, res) ==
    [lead_id |-> sequence_data.lead_id,
     sequence_step |-> sequence_data.current_step + 1,
     status |-> res.status,
     sendgrid_message_id |-> res.message_id,
     opened_at |-> NULL,
     clicked_at |-> NULL,
     bounce_reason |-> NoReason]

\* send_sequence_email: "Log result".
LogResult ==
    /\ mpc = "log"
    /\ email_campaigns' =
           Append(email_campaigns, NewCampaign(Head(pending), result))
    /\ mpc' = "update"
    /\ UNCHANGED <<leads, lead_sequences, pending, attempt, result, calls,
                   events>>
    /\ UNCHANGED engineVars
    /\ UNCHANGED dispVars
    /\ UNCHANGED adjVars
    /\ UNCHANGED scoreVars
    /\ UNCHANGED pipeVars
    /\ UNCHANGED clientVars
    /\ UNCHANGED batchVars
    /\ UNCHANGED handleVars
    /\ UNCHANGED authVars

\* The progress updated whatever the status of the result.
UpdateProgressWhateverResult ==
    /\ mpc = "update"
    /\ LET id == Head(pending).lead_id
           next_step == Head(pending).current_step + 1
       IN  IF result.status \in {"sent", "failed", "error"}
           THEN lead_sequences' = [lead_sequences EXCEPT ![id] =
                    [status |-> IF next_step >= LastStep
                                THEN "completed" ELSE @.status,
                     current_step |-> next_step,
                     next_send_at |-> IF next_step < LastStep
                                      THEN now + StepDelay ELSE NULL]]
           ELSE lead_sequences' = lead_sequences
    /\ pending' = Tail(pending)
    /\ mpc' = IF Tail(pending) = <<>> THEN "idle" ELSE "send"
    /\ attempt' = 0
    /\ calls' = 0
    /\ slept' = 0
    /\ result' = NoResult
    /\ UNCHANGED <<leads, email_campaigns, events>>
    /\ UNCHANGED engineVars
    /\ UNCHANGED dispVars
    /\ UNCHANGED adjVars
    /\ UNCHANGED scoreVars
    /\ UNCHANGED pipeVars
    /\ UNCHANGED batchVars
    /\ UNCHANGED handleVars
    /\ UNCHANGED authVars

\* send_sequence_email: "Update sequence progress", and the loop of
\* process_pending_sequences going on to its next row.
UpdateProgress ==
    /\ mpc = "update"
    /\ LET id == Head(pending).lead_id
           next_step == Head(pending).current_step + 1
       IN  IF result.status = "sent"
           THEN lead_sequences' = [lead_sequences EXCEPT ![id] =
                    [status |-> IF next_step >= LastStep
                                THEN "completed" ELSE @.status,
                     current_step |-> next_step,
                     next_send_at |-> IF next_step < LastStep
                                      THEN now + StepDelay ELSE NULL]]
           ELSE lead_sequences' = lead_sequences
    /\ pending' = Tail(pending)
    /\ mpc' = IF Tail(pending) = <<>> THEN "idle" ELSE "send"
    /\ attempt' = 0
    /\ calls' = 0
    /\ slept' = 0
    /\ result' = NoResult
    /\ UNCHANGED <<leads, email_campaigns, events>>
    /\ UNCHANGED engineVars
    /\ UNCHANGED dispVars
    /\ UNCHANGED adjVars
    /\ UNCHANGED scoreVars
    /\ UNCHANGED pipeVars
    /\ UNCHANGED batchVars
    /\ UNCHANGED handleVars
    /\ UNCHANGED authVars

\* The events a webhook call may carry about lead l: an event names the
\* message of one of the lead's campaigns, or a message no campaign holds, or
\* no message.
EventTypes == {"open", "bounce", "dropped", "delivered"}

PermanentFailures == {"bounce", "blocked", "dropped"}

MessageIdsOf(l) ==
    {email_campaigns[k].sendgrid_message_id : k \in
        {j \in DOMAIN email_campaigns :
            /\ email_campaigns[j].lead_id = l
            /\ email_campaigns[j].sendgrid_message_id # NULL}}

\* The timestamp an event carries.
EventTimestamp == StartTime

WebhookEvents ==
    {[email |-> l, event |-> t, timestamp |-> EventTimestamp,
      sg_message_id |-> m] :
        l \in MainLeads, t \in EventTypes,
        m \in {NULL, UnknownMessageId} \cup DOMAIN email_campaigns}

\* "Find campaign by message ID or email": the id of the row found, 0 when
\* there is none.
FindCampaign(event) ==
    LET byId == {k \in DOMAIN email_campaigns :
                    email_campaigns[k].sendgrid_message_id
                        = event.sg_message_id}
        byEmail == {k \in DOMAIN email_campaigns :
                       /\ email_campaigns[k].lead_id = event.email
                       /\ leads[event.email] # "absent"}
    IN  IF event.sg_message_id # NULL
        THEN IF byId = {} THEN 0 ELSE CHOOSE k \in byId : TRUE
        ELSE IF byEmail = {} THEN 0
             ELSE CHOOSE k \in byEmail : \A j \in byEmail : j <= k

\* f"SendGrid {event.event} event"
BounceReason(event) ==
    [bounce |-> "SendGrid bounce event",
     blocked |-> "SendGrid blocked event",
     dropped |-> "SendGrid dropped event"][event.event]

\* The webhook with the update of leads left out.
WebhookKeepingLead(event) ==
    /\ events < MaxEvents
    /\ events' = events + 1
    /\ event.sg_message_id \in {NULL, UnknownMessageId} \cup
                               MessageIdsOf(event.email)
    /\ LET id == FindCampaign(event)
       IN  IF id # 0 /\ event.event \in PermanentFailures
           THEN email_campaigns' = [email_campaigns EXCEPT ![id] =
                    [@ EXCEPT !.status = event.event,
                              !.bounce_reason = BounceReason(event)]]
           ELSE email_campaigns' = email_campaigns
    /\ UNCHANGED <<leads, lead_sequences, mpc, pending, attempt, result,
                   calls>>
    /\ UNCHANGED engineVars
    /\ UNCHANGED dispVars
    /\ UNCHANGED adjVars
    /\ UNCHANGED scoreVars
    /\ UNCHANGED pipeVars
    /\ UNCHANGED clientVars
    /\ UNCHANGED batchVars
    /\ UNCHANGED handleVars
    /\ UNCHANGED authVars

\* handle_sendgrid_webhook for one event of its list.
Webhook(event) ==
    /\ events < MaxEvents
    /\ events' = events + 1
    /\ event.sg_message_id \in {NULL, UnknownMessageId} \cup
                               MessageIdsOf(event.email)
    /\ LET id == FindCampaign(event)
       IN  IF id = 0
           THEN UNCHANGED <<email_campaigns, leads>>
           ELSE IF event.event = "open"
           THEN /\ email_campaigns' =
                       IF email_campaigns[id].opened_at = NULL
                       THEN [email_campaigns EXCEPT ![id] =
                                [@ EXCEPT !.opened_at = event.timestamp,
                                          !.status = "opened"]]
                       ELSE email_campaigns
                /\ UNCHANGED leads
           ELSE IF event.event = "click"
           THEN /\ email_campaigns' =
                       IF email_campaigns[id].clicked_at = NULL
                       THEN [email_campaigns EXCEPT ![id] =
                                [@ EXCEPT !.clicked_at = event.timestamp,
                                          !.status = "clicked"]]
                       ELSE email_campaigns
                /\ UNCHANGED leads
           ELSE IF event.event \in PermanentFailures
           THEN /\ email_campaigns' = [email_campaigns EXCEPT ![id] =
                       [@ EXCEPT !.status = event.event,
                                 !.bounce_reason = BounceReason(event)]]
                /\ leads' = [leads EXCEPT ![event.email] =
                                IF @ = "absent" THEN @ ELSE "invalid"]
           ELSE UNCHANGED <<email_campaigns, leads>>
    /\ UNCHANGED <<lead_sequences, mpc, pending, attempt, result, calls>>
    /\ UNCHANGED engineVars
    /\ UNCHANGED dispVars
    /\ UNCHANGED adjVars
    /\ UNCHANGED scoreVars
    /\ UNCHANGED pipeVars
    /\ UNCHANGED clientVars
    /\ UNCHANGED batchVars
    /\ UNCHANGED handleVars
    /\ UNCHANGED authVars

MainIdle ==
    /\ leads = [l \in MainLeads |-> "absent"]
    /\ lead_sequences = [l \in MainLeads |-> NoSequence]
    /\ email_campaigns = <<>>
    /\ mpc = "idle"
    /\ pending = <<>>
    /\ attempt = 0
    /\ calls = 0
    /\ slept = 0
    /\ result = NoResult
    /\ events = 0

----------------------------------------------------------------------------
(* Lead scoring: LeadScoringEngine (lead_scoring_engine.py) *)

\* Scores are counted in hundredths of a point.
Points(units, hundredths) == units * 100 + hundredths

\* self.weights, in hundredths
WeightAlgorithmic == 50
WeightContextual == 30
WeightPrediction == 20

\* What a profile attribute that should hold a string can hold: nothing, a
\* string the validator accepts, a string it rejects, or a value that is not
\* a string (a number).
Presence == {"none", "valid", "suspect", "malformed"}

Socials == {"instagram_url", "onlyfans_url", "twitter_url"}

\* Descriptions, by what the engine reads of them: len(description), the
\* business keywords, positive and negative indicators found in it, the
\* number of parts description.split('.') gives and the number of '!'.
\* A malformed description is a number.
NoDescription ==
    [kind |-> "none", length |-> 0, keywords |-> 0, positive |-> 0,
     negative |-> 0, parts |-> 0, exclamations |-> 0]

Descriptions ==
    {NoDescription,
     [kind |-> "text", length |-> 10, keywords |-> 0, positive |-> 0,
      negative |-> 0, parts |-> 1, exclamations |-> 0],
     [kind |-> "text", length |-> 60, keywords |-> 1, positive |-> 0,
      negative |-> 5, parts |-> 2, exclamations |-> 3],
     [kind |-> "text", length |-> 120, keywords |-> 2, positive |-> 1,
      negative |-> 0, parts |-> 4, exclamations |-> 0],
     [kind |-> "text", length |-> 250, keywords |-> 7, positive |-> 6,
      negative |-> 0, parts |-> 5, exclamations |-> 1],
     [kind |-> "malformed", length |-> 0, keywords |-> 0, positive |-> 0,
      negative |-> 0, parts |-> 0, exclamations |-> 0]}

\* Locations: none, one of major_cities that _estimate_value also lists, one
\* of major_cities it does not list, another place, a value that is not a
\* string.
Locations == {"none", "new york", "chicago", "elsewhere", "malformed"}

Profiles ==
    [email : Presence, phone : Presence, social : SUBSET Socials,
     description : Descriptions, location : Locations]

NoProfile ==
    [email |-> "none", phone |-> "none", social |-> {},
     description |-> NoDescription, location |-> "none"]

Max(a, b) == IF a > b THEN a ELSE b

\* The try block of _algorithmic_scoring raises: a validator is handed a
\* value that is not a string, or len() or lower() is called on one.
AlgorithmicRaises(profile) ==
    \/ profile.email = "malformed"
    \/ profile.phone = "malformed"
    \/ profile.description.kind = "malformed"
    \/ profile.location = "malformed"

ContactScore(presence) ==
    IF presence = "none" THEN 0
    ELSE IF presence = "valid" THEN Points(2, 0) ELSE Points(1, 0)

SocialScore(social) ==
    (IF "instagram_url" \in social THEN Points(1, 0) ELSE 0)
    + (IF "onlyfans_url" \in social THEN Points(1, 50) ELSE 0)
    + (IF "twitter_url" \in social THEN Points(0, 50) ELSE 0)

ContentScore(description) ==
    IF description.kind = "none" THEN 0
    ELSE (IF description.length > 200 THEN Points(1, 0)
          ELSE IF description.length > 100 THEN Points(0, 60)
          ELSE IF description.length > 50 THEN Points(0, 30)
          ELSE 0)
         + Min(description.keywords * Points(0, 30), Points(1, 50))

LocationScore(location) ==
    IF location = "none" THEN 0
    ELSE IF location \in {"new york", "chicago"} THEN Points(1, 0)
    ELSE Points(0, 50)

\* LeadScoringEngine._algorithmic_scoring
AlgorithmicScoring(profile) ==
    IF AlgorithmicRaises(profile)
    THEN Points(5, 0)
    ELSE Min(ContactScore(profile.email) + ContactScore(profile.phone)
             + Min(SocialScore(profile.social), Points(2, 50))
             + Min(ContentScore(profile.description), Points(2, 50))
             + LocationScore(profile.location),
             Points(10, 0))

\* _ai_contextual_scoring raises before its try block: len() of a number.
ContextualRaises(profile) == profile.description.kind = "malformed"

\* LeadScoringEngine._ai_contextual_scoring, when it returns
AiContextualScoring(profile) ==
    LET description == profile.description
    IN  IF description.kind = "none" \/ description.length < 20
        THEN Points(5, 0)
        ELSE Max(Points(1, 0),
                 Min(Points(10, 0),
                     Points(5, 0)
                     + description.positive * Points(0, 80)
                     - description.negative * Points(0, 50)
                     + (IF description.parts > 3 THEN Points(0, 50) ELSE 0)
                     + (IF description.exclamations <= 2
                        THEN Points(0, 30) ELSE 0)))

\* _classify_lead with the tiers below HOT in the wrong order.
ClassifyLeadSwapped(score) ==
    IF score >= Points(8, 0) THEN "HOT"
    ELSE IF score >= Points(6, 50) THEN "COLD"
    ELSE IF score >= Points(4, 0) THEN "WARM"
    ELSE "TRASH"

\* LeadScoringEngine._classify_lead
ClassifyLead(score) ==
    IF score >= Points(8, 0) THEN "HOT"
    ELSE IF score >= Points(6, 50) THEN "WARM"
    ELSE IF score >= Points(4, 0) THEN "COLD"
    ELSE "TRASH"

\* LeadScoringEngine._suggest_next_action
SuggestNextAction(classification) ==
    IF classification = "HOT" THEN "CONTACT_IMMEDIATELY"
    ELSE IF classification = "WARM" THEN "EMAIL_SEQUENCE"
    ELSE IF classification = "COLD" THEN "NURTURE_CAMPAIGN"
    ELSE IF classification = "TRASH" THEN "DISCARD"
    ELSE "MANUAL_REVIEW"

\* _estimate_value raises: lower() of a location that is not a string.
EstimateRaises(profile) == profile.location = "malformed"

\* LeadScoringEngine._calculate_confidence, in hundredths
CalculateConfidence(algo_score, ai_score) ==
    LET score_diff == IF algo_score >= ai_score THEN algo_score - ai_score
                      ELSE ai_score - algo_score
    IN  IF score_diff <= Points(1, 0) THEN 95
        ELSE IF score_diff <= Points(2, 0) THEN 80
        ELSE IF score_diff <= Points(3, 0) THEN 65
        ELSE 50

\* LeadScoringEngine._default_score_result
DefaultScoreResult ==
    [final_score |-> Points(5, 0), classification |-> "UNKNOWN",
     confidence |-> 50, algorithmic |-> Points(5, 0),
     ai_contextual |-> Points(5, 0), next_action |-> "MANUAL_REVIEW"]

NoScoreResult ==
    [final_score |-> 0, classification |-> "none", confidence |-> 0,
     algorithmic |-> 0, ai_contextual |-> 0, next_action |-> "none"]

\* LeadScoringEngine.score_profile: the dictionary it returns.
ScoreProfileResult(profile) ==
    IF ContextualRaises(profile) \/ EstimateRaises(profile)
    THEN DefaultScoreResult
    ELSE LET algo_score == AlgorithmicScoring(profile)
             ai_score == AiContextualScoring(profile)
             ml_score == Points(5, 0)
             final_score == (algo_score * WeightAlgorithmic
                             + ai_score * WeightContextual
                             + ml_score * WeightPrediction) \div 100
         IN  [final_score |-> final_score,
              classification |-> ClassifyLead(final_score),
              confidence |-> CalculateConfidence(algo_score, ai_score),
              algorithmic |-> algo_score,
              ai_contextual |-> ai_score,
              next_action |-> SuggestNextAction(ClassifyLead(final_score))]

ScoreProfile ==
    /\ sc_pc = "called"
    /\ sc_result' = ScoreProfileResult(sc_profile)
    /\ sc_pc' = "returned"
    /\ UNCHANGED <<sc_profile, cl_a, cl_b, cl_out>>
    /\ UNCHANGED engineVars
    /\ UNCHANGED dispVars
    /\ UNCHANGED mainVars
    /\ UNCHANGED adjVars
    /\ UNCHANGED pipeVars
    /\ UNCHANGED clientVars
    /\ UNCHANGED batchVars
    /\ UNCHANGED handleVars
    /\ UNCHANGED authVars

\* The scores handed to _classify_lead: every tenth of a point from 0 to
\* MaxScoreSteps tenths.
ScoreStep == 10

MaxScoreSteps == 100

Scores == {ScoreStep * i : i \in 0..MaxScoreSteps}

ClassifyBoth ==
    /\ cl_out = <<>>
    /\ cl_out' = <<ClassifyLead(cl_a), ClassifyLead(cl_b)>>
    /\ UNCHANGED <<sc_profile, sc_pc, sc_result, cl_a, cl_b>>
    /\ UNCHANGED engineVars
    /\ UNCHANGED dispVars
    /\ UNCHANGED mainVars
    /\ UNCHANGED adjVars
    /\ UNCHANGED pipeVars
    /\ UNCHANGED clientVars
    /\ UNCHANGED batchVars
    /\ UNCHANGED handleVars
    /\ UNCHANGED authVars

----------------------------------------------------------------------------
(* Lead qualification: LeadQualificationService (services/qualification.py) *)

\* Scores are floats with a few decimals; the model counts them in millionths
\* of a point, which the weighted sums below divide without remainder.
Micro(units, hundredths) == units * 1000000 + hundredths * 10000

\* An SQL NULL in a text column, None once the row is read into a dict.
Missing == "<NULL>"

WeightBudget == 30
WeightAuthority == 25
WeightNeed == 25
WeightTimeline == 20

ThresholdHot == Micro(8, 0)
ThresholdWarm == Micro(6, 0)
ThresholdCold == Micro(4, 0)

\* The lower-cased words of the texts the sample leads carry; `x in text` of
\* the code is membership of x in the words of the text.
Words(text) ==
    CASE text = "CEO, urgent request" -> {"ceo", "urgent", "request"}
      [] text = "call back soon" -> {"call", "back", "soon"}
      [] text = "SaaS" -> {"saas"}
      [] text = "Retail" -> {"retail"}
      [] text = "Enterprise" -> {"enterprise"}
      [] text = "small" -> {"small"}
      [] text = "acme.com" -> {".co", "acme"}
      [] text = "acme.io" -> {"acme"}
      [] text = "gmail.com" -> {".co", "gmail"}
      [] OTHER -> {}

\* Rows as POST /leads and PUT /leads/{id} leave them: the optional columns
\* are NULL unless the request gave them.
LeadData ==
    { [email_domain |-> "acme.com", company |-> "Acme", phone |-> "555", industry |-> "SaaS",
       budget_range |-> "Enterprise", notes |-> "CEO, urgent request", source |-> "referral",
       days_since_contact |-> 3, email_count |-> 2, opens |-> 2, clicks |-> 1],
      [email_domain |-> "gmail.com", company |-> Missing, phone |-> Missing, industry |-> "",
       budget_range |-> Missing, notes |-> "", source |-> "manual",
       days_since_contact |-> NULL, email_count |-> 0, opens |-> 0, clicks |-> 0],
      [email_domain |-> "acme.io", company |-> "Acme", phone |-> Missing, industry |-> "Retail",
       budget_range |-> "small", notes |-> "call back soon", source |-> "website",
       days_since_contact |-> 45, email_count |-> 2, opens |-> 1, clicks |-> 0],
      [email_domain |-> "acme.com", company |-> "Acme", phone |-> "555", industry |-> "SaaS",
       budget_range |-> "Enterprise", notes |-> Missing, source |-> "manual",
       days_since_contact |-> NULL, email_count |-> 0, opens |-> 0, clicks |-> 0] }

NewRow(data) == [data |-> data, score |-> NULL, status |-> "new"]

\* _get_lead_data: the row as a dict when there is one (None otherwise).
Stored(lead_id) == lead_id \in 1..Len(pipeline_leads)

GetLeadData(lead_id) == pipeline_leads[lead_id].data

Truthy(text) == text # Missing /\ text # ""

\* str.lower() of None raises AttributeError; _analyze_bant_criteria does not
\* catch it.
BantRaises(lead_data) == lead_data.notes = Missing \/ lead_data.industry = Missing

BudgetScore(lead_data) ==
    IF ~Truthy(lead_data.budget_range) THEN 0
    ELSE IF "enterprise" \in Words(lead_data.budget_range) THEN Micro(10, 0)
    ELSE IF "mid-market" \in Words(lead_data.budget_range) THEN Micro(7, 50)
    ELSE IF "small" \in Words(lead_data.budget_range) THEN Micro(5, 0)
    ELSE Micro(2, 50)

AuthorityScore(lead_data) ==
    IF Words(lead_data.notes) \cap {"ceo", "founder", "director", "vp", "head", "manager", "owner"} # {}
    THEN Micro(8, 0)
    ELSE IF Truthy(lead_data.company) THEN Micro(6, 0)
    ELSE Micro(3, 0)

NeedScore(lead_data) ==
    IF Words(lead_data.industry) \cap {"saas", "ecommerce", "agency", "consulting", "fintech", "marketing"} # {}
    THEN Micro(8, 0)
    ELSE IF lead_data.industry # "" THEN Micro(5, 0)
    ELSE Micro(3, 0)

TimelineScore(lead_data) ==
    IF Words(lead_data.notes) \cap {"urgent", "asap"} # {} THEN Micro(9, 0)
    ELSE IF Words(lead_data.notes) \cap {"soon", "quick"} # {} THEN Micro(7, 0)
    ELSE Micro(5, 0)

AnalyzeBantCriteria(lead_data) ==
    Min((BudgetScore(lead_data) * WeightBudget
         + AuthorityScore(lead_data) * WeightAuthority
         + NeedScore(lead_data) * WeightNeed
         + TimelineScore(lead_data) * WeightTimeline) \div 100,
        Micro(10, 0))

AnalyzeBehavioralData(lead_data) ==
    IF lead_data.email_count > 0
    THEN LET engagement_rate5 ==
                 ((lead_data.opens + lead_data.clicks * 2) * Micro(5, 0)) \div lead_data.email_count
             behavioral_score ==
                 Min(engagement_rate5, Micro(10, 0))
                 + (IF lead_data.clicks > 0 THEN Micro(2, 0) ELSE 0)
         IN  Min(behavioral_score, Micro(10, 0))
    ELSE Micro(5, 0)

DemographicRaises(lead_data) == lead_data.source = Missing

SourceScore(source) ==
    CASE source = "referral" -> Micro(2, 0)
      [] source = "linkedin" -> Micro(1, 50)
      [] source = "website" -> Micro(1, 0)
      [] source = "webinar" -> Micro(1, 50)
      [] source = "manual" -> Micro(0, 50)
      [] OTHER -> 0

AnalyzeDemographicFit(lead_data) ==
    LET domain == lead_data.email_domain
        free_domains == {"gmail.com", "yahoo.com", "hotmail.com", "outlook.com"}
        completeness ==
            \* first_name is a required field of the lead
            Micro(0, 50)
            + (IF Truthy(lead_data.company) THEN Micro(0, 50) ELSE 0)
            + (IF Truthy(lead_data.phone) THEN Micro(0, 50) ELSE 0)
            + (IF Truthy(lead_data.industry) THEN Micro(0, 50) ELSE 0)
    IN  Min(Micro(5, 0)
            + (IF domain \notin free_domains THEN Micro(2, 0) ELSE 0)
            + (IF Words(domain) \cap {".co", ".inc", ".llc", ".corp"} # {} THEN Micro(1, 0) ELSE 0)
            + completeness
            + SourceScore(lead_data.source),
            Micro(10, 0))

AnalyzeEngagementLevel(lead_data) ==
    IF lead_data.days_since_contact = NULL THEN Micro(6, 0)
    ELSE IF lead_data.days_since_contact <= 7 THEN Micro(9, 0)
    ELSE IF lead_data.days_since_contact <= 30 THEN Micro(7, 0)
    ELSE IF lead_data.days_since_contact <= 90 THEN Micro(5, 0)
    ELSE Micro(3, 0)

CalculateWeightedScore(bant, behavioral, demographic, engagement) ==
    Min((bant * 40 + behavioral * 25 + demographic * 20 + engagement * 15) \div 100,
        Micro(10, 0))

QualificationClass(score) ==
    IF score >= ThresholdHot THEN "HOT"
    ELSE IF score >= ThresholdWarm THEN "WARM"
    ELSE IF score >= ThresholdCold THEN "COLD"
    ELSE "UNQUALIFIED"

\* round(x, 2), to the nearest hundredth of a point.
Round2(score) == ((score + 5000) \div 10000) * 10000

FinalScore(lead_data) ==
    CalculateWeightedScore(AnalyzeBantCriteria(lead_data),
                           AnalyzeBehavioralData(lead_data),
                           AnalyzeDemographicFit(lead_data),
                           AnalyzeEngagementLevel(lead_data))

DefaultQualificationResult(lead_id) ==
    [lead_id |-> lead_id, qualification_score |-> Micro(5, 0), classification |-> "UNKNOWN",
     raised |-> "none"]

NoQualification ==
    [lead_id |-> 0, qualification_score |-> 0, classification |-> "none", raised |-> "none"]

\* Whether the body of qualify_lead raises; its `except Exception` turns
\* whatever was raised into the default result, so nothing is raised to the
\* caller ("raised" of a result is "none").
QualifyRaises(lead_id) ==
    \/ ~Stored(lead_id)
    \/ BantRaises(GetLeadData(lead_id))
    \/ DemographicRaises(GetLeadData(lead_id))

QualifyLeadResult(lead_id) ==
    IF QualifyRaises(lead_id) THEN DefaultQualificationResult(lead_id)
    ELSE LET final_score == FinalScore(GetLeadData(lead_id))
         IN  [lead_id |-> lead_id,
              qualification_score |-> Round2(final_score),
              classification |-> QualificationClass(final_score),
              raised |-> "none"]

\* classification.lower()
Lower(classification) ==
    CASE classification = "HOT" -> "hot"
      [] classification = "WARM" -> "warm"
      [] classification = "COLD" -> "cold"
      [] classification = "UNQUALIFIED" -> "unqualified"

\* _update_lead_qualification, reached only when nothing was raised.
UpdateLeadQualification(lead_id) ==
    IF QualifyRaises(lead_id) THEN pipeline_leads
    ELSE LET final_score == FinalScore(GetLeadData(lead_id))
         IN  [pipeline_leads EXCEPT ![lead_id].score = final_score,
                                    ![lead_id].status = Lower(QualificationClass(final_score))]

\* POST /leads of the pipeline API.
PipelineCreateLead(data) ==
    /\ Len(pipeline_leads) < MaxPipelineLeads
    /\ pipeline_leads' = Append(pipeline_leads, NewRow(data))
    /\ UNCHANGED <<q_pc, q_limit, q_selected, q_results, q_arg, q_ret>>
    /\ UNCHANGED <<crm_leads, crm_ret, crm_deleted>>
    /\ UNCHANGED engineVars
    /\ UNCHANGED dispVars
    /\ UNCHANGED mainVars
    /\ UNCHANGED scoreVars
    /\ UNCHANGED adjVars
    /\ UNCHANGED clientVars
    /\ UNCHANGED batchVars
    /\ UNCHANGED handleVars
    /\ UNCHANGED authVars

\* qualify_lead(lead_id), called on its own.
QualifyLead(lead_id) ==
    /\ q_arg' = lead_id
    /\ q_ret' = QualifyLeadResult(lead_id)
    /\ pipeline_leads' = UpdateLeadQualification(lead_id)
    /\ UNCHANGED <<q_pc, q_limit, q_selected, q_results>>
    /\ UNCHANGED <<crm_leads, crm_ret, crm_deleted>>
    /\ UNCHANGED engineVars
    /\ UNCHANGED dispVars
    /\ UNCHANGED mainVars
    /\ UNCHANGED scoreVars
    /\ UNCHANGED adjVars
    /\ UNCHANGED clientVars
    /\ UNCHANGED batchVars
    /\ UNCHANGED handleVars
    /\ UNCHANGED authVars

Unqualified(lead_id) ==
    pipeline_leads[lead_id].score = NULL \/ pipeline_leads[lead_id].score = 0

\* ORDER BY created_at DESC: the newest row first, rows being created in the
\* order of their ids.
RECURSIVE NewestFirst(_)
NewestFirst(ids) ==
    IF ids = {} THEN <<>>
    ELSE LET newest == CHOOSE i \in ids : \A j \in ids : j <= i
         IN  <<newest>> \o NewestFirst(ids \ {newest})

\* LIMIT ?
Limit(rows, limit) == SubSeq(rows, 1, Min(limit, Len(rows)))

\* bulk_qualify_leads(limit): the query for the leads without a score.
BulkSelect(limit) ==
    /\ q_pc \in {"idle", "done"}
    /\ q_limit' = limit
    /\ q_selected' = Limit(NewestFirst({i \in 1..Len(pipeline_leads) : Unqualified(i)}), limit)
    /\ q_results' = <<>>
    /\ q_pc' = "loop"
    /\ UNCHANGED <<pipeline_leads, q_arg, q_ret>>
    /\ UNCHANGED <<crm_leads, crm_ret, crm_deleted>>
    /\ UNCHANGED engineVars
    /\ UNCHANGED dispVars
    /\ UNCHANGED mainVars
    /\ UNCHANGED scoreVars
    /\ UNCHANGED adjVars
    /\ UNCHANGED clientVars
    /\ UNCHANGED batchVars
    /\ UNCHANGED handleVars
    /\ UNCHANGED authVars

\* A loop that would end at the first lead that cannot be qualified.
BulkQualifyStoppingAtFailure ==
    /\ q_pc = "loop"
    /\ Len(q_results) < Len(q_selected)
    /\ LET lead_id == q_selected[Len(q_results) + 1]
       IN  IF QualifyRaises(lead_id)
           THEN /\ q_pc' = "done"
                /\ UNCHANGED <<q_results, pipeline_leads>>
           ELSE /\ q_results' = Append(q_results, QualifyLeadResult(lead_id))
                /\ pipeline_leads' = UpdateLeadQualification(lead_id)
                /\ q_pc' = "loop"
    /\ UNCHANGED <<q_limit, q_selected, q_arg, q_ret>>
    /\ UNCHANGED <<crm_leads, crm_ret, crm_deleted>>
    /\ UNCHANGED engineVars
    /\ UNCHANGED dispVars
    /\ UNCHANGED mainVars
    /\ UNCHANGED scoreVars
    /\ UNCHANGED adjVars
    /\ UNCHANGED clientVars
    /\ UNCHANGED batchVars
    /\ UNCHANGED handleVars
    /\ UNCHANGED authVars

\* One turn of the loop over lead_ids: qualify_lead and results.append.
BulkQualifyNext ==
    /\ q_pc = "loop"
    /\ Len(q_results) < Len(q_selected)
    /\ LET lead_id == q_selected[Len(q_results) + 1]
       IN  /\ q_results' = Append(q_results, QualifyLeadResult(lead_id))
           /\ pipeline_leads' = UpdateLeadQualification(lead_id)
    /\ UNCHANGED <<q_pc, q_limit, q_selected, q_arg, q_ret>>
    /\ UNCHANGED <<crm_leads, crm_ret, crm_deleted>>
    /\ UNCHANGED engineVars
    /\ UNCHANGED dispVars
    /\ UNCHANGED mainVars
    /\ UNCHANGED scoreVars
    /\ UNCHANGED adjVars
    /\ UNCHANGED clientVars
    /\ UNCHANGED batchVars
    /\ UNCHANGED handleVars
    /\ UNCHANGED authVars

\* The loop is over: return results.
BulkReturn ==
    /\ q_pc = "loop"
    /\ Len(q_results) = Len(q_selected)
    /\ q_pc' = "done"
    /\ UNCHANGED <<pipeline_leads, q_limit, q_selected, q_results, q_arg, q_ret>>
    /\ UNCHANGED <<crm_leads, crm_ret, crm_deleted>>
    /\ UNCHANGED engineVars
    /\ UNCHANGED dispVars
    /\ UNCHANGED mainVars
    /\ UNCHANGED scoreVars
    /\ UNCHANGED adjVars
    /\ UNCHANGED clientVars
    /\ UNCHANGED batchVars
    /\ UNCHANGED handleVars
    /\ UNCHANGED authVars

----------------------------------------------------------------------------
(* Smart pipeline of HUNTER_AGENCY_V2.0: LeadService and its routes *)

CrmIds == 1..MaxCrmId

\* len(name) of the names the requests carry.
NameLength(name) ==
    CASE name = "Bob" -> 3
      [] name = "Robert" -> 6
      [] name = "Alexandra" -> 9

CrmNames == {"Bob", "Robert", "Alexandra"}

\* The fields a PUT /leads/{id} request sets (exclude_unset keeps the others).
CrmUpdates == {[field |-> "name", value |-> "Robert"], [field |-> "status", value |-> "won"]}

NoGrade == "none"

NoResponse == [op |-> "none", lead_id |-> 0, status_code |-> 0, raised |-> "none"]

Response(op, lead_id, status_code) ==
    [op |-> op, lead_id |-> lead_id, status_code |-> status_code,
     raised |-> IF status_code = 404 THEN "HTTPException" ELSE "none"]

\* The id SQLite gives a row inserted into a table whose INTEGER PRIMARY KEY
\* is not AUTOINCREMENT: one more than the largest id stored.
NextRowId ==
    IF DOMAIN crm_leads = {} THEN 1
    ELSE 1 + CHOOSE i \in DOMAIN crm_leads : \A j \in DOMAIN crm_leads : j <= i

\* POST /leads
CrmCreateLead(name) ==
    /\ NextRowId <= MaxCrmId
    /\ crm_leads' = [i \in DOMAIN crm_leads \cup {NextRowId} |->
                        IF i = NextRowId
                        THEN [name |-> name, status |-> "new", grade |-> NoGrade, ai_score |-> NULL]
                        ELSE crm_leads[i]]
    /\ crm_ret' = Response("create", NextRowId, 201)
    /\ UNCHANGED crm_deleted
    /\ UNCHANGED <<pipeline_leads, q_pc, q_limit, q_selected, q_results, q_arg, q_ret>>
    /\ UNCHANGED engineVars
    /\ UNCHANGED dispVars
    /\ UNCHANGED mainVars
    /\ UNCHANGED scoreVars
    /\ UNCHANGED adjVars
    /\ UNCHANGED clientVars
    /\ UNCHANGED batchVars
    /\ UNCHANGED handleVars
    /\ UNCHANGED authVars

\* GET /leads/{lead_id}
CrmGetLead(lead_id) ==
    /\ crm_ret' = Response("get", lead_id, IF lead_id \in DOMAIN crm_leads THEN 200 ELSE 404)
    /\ UNCHANGED <<crm_leads, crm_deleted>>
    /\ UNCHANGED <<pipeline_leads, q_pc, q_limit, q_selected, q_results, q_arg, q_ret>>
    /\ UNCHANGED engineVars
    /\ UNCHANGED dispVars
    /\ UNCHANGED mainVars
    /\ UNCHANGED scoreVars
    /\ UNCHANGED adjVars
    /\ UNCHANGED clientVars
    /\ UNCHANGED batchVars
    /\ UNCHANGED handleVars
    /\ UNCHANGED authVars

\* PUT /leads/{lead_id}
CrmUpdateLead(lead_id, data) ==
    /\ IF lead_id \in DOMAIN crm_leads
       THEN /\ crm_leads' = [crm_leads EXCEPT ![lead_id][data.field] = data.value]
            /\ crm_ret' = Response("update", lead_id, 200)
       ELSE /\ crm_ret' = Response("update", lead_id, 404)
            /\ UNCHANGED crm_leads
    /\ UNCHANGED crm_deleted
    /\ UNCHANGED <<pipeline_leads, q_pc, q_limit, q_selected, q_results, q_arg, q_ret>>
    /\ UNCHANGED engineVars
    /\ UNCHANGED dispVars
    /\ UNCHANGED mainVars
    /\ UNCHANGED scoreVars
    /\ UNCHANGED adjVars
    /\ UNCHANGED clientVars
    /\ UNCHANGED batchVars
    /\ UNCHANGED handleVars
    /\ UNCHANGED authVars

\* DELETE /leads/{lead_id}
CrmDeleteLead(lead_id) ==
    /\ IF lead_id \in DOMAIN crm_leads
       THEN /\ crm_leads' = [i \in DOMAIN crm_leads \ {lead_id} |-> crm_leads[i]]
            /\ crm_ret' = Response("delete", lead_id, 200)
            /\ crm_deleted' = crm_deleted \cup {lead_id}
       ELSE /\ crm_ret' = Response("delete", lead_id, 404)
            /\ UNCHANGED <<crm_leads, crm_deleted>>
    /\ UNCHANGED <<pipeline_leads, q_pc, q_limit, q_selected, q_results, q_arg, q_ret>>
    /\ UNCHANGED engineVars
    /\ UNCHANGED dispVars
    /\ UNCHANGED mainVars
    /\ UNCHANGED scoreVars
    /\ UNCHANGED adjVars
    /\ UNCHANGED clientVars
    /\ UNCHANGED batchVars
    /\ UNCHANGED handleVars
    /\ UNCHANGED authVars

\* LeadQualificationService.qualify(lead_id) of the same package.
CrmQualify(lead_id) ==
    /\ IF lead_id \in DOMAIN crm_leads
       THEN LET ai_score == Min(NameLength(crm_leads[lead_id].name) * 10, 100)
                grade == IF ai_score >= 70 THEN "hot"
                         ELSE IF ai_score >= 40 THEN "warm"
                         ELSE "cold"
            IN  /\ crm_leads' = [crm_leads EXCEPT ![lead_id].ai_score = ai_score,
                                                  ![lead_id].grade = grade]
                /\ crm_ret' = Response("qualify", lead_id, 0)
       ELSE /\ crm_ret' = [op |-> "qualify", lead_id |-> lead_id, status_code |-> 0,
                           raised |-> "ValueError"]
            /\ UNCHANGED crm_leads
    /\ UNCHANGED crm_deleted
    /\ UNCHANGED <<pipeline_leads, q_pc, q_limit, q_selected, q_results, q_arg, q_ret>>
    /\ UNCHANGED engineVars
    /\ UNCHANGED dispVars
    /\ UNCHANGED mainVars
    /\ UNCHANGED scoreVars
    /\ UNCHANGED adjVars
    /\ UNCHANGED clientVars
    /\ UNCHANGED batchVars
    /\ UNCHANGED handleVars
    /\ UNCHANGED authVars

----------------------------------------------------------------------------
(* The batch limits of the three passes *)

\* process_sequences, send_scheduled_emails and process_pending_sequences
\* have the same shape: a query for the due rows with a LIMIT, and a loop
\* that handles the rows returned one after the other.  To see the limits
\* at work the passes are run here over more rows than they take, a row
\* being known by its id only.
Passes == {"process_sequences", "send_scheduled_emails", "process_pending_sequences"}

LimitOf(pass) ==
    CASE pass = "process_sequences" -> BatchLimit
      [] pass = "send_scheduled_emails" -> SendLimit
      [] pass = "process_pending_sequences" -> PendingLimit

\* The sets of k rows out of a set of rows.
RECURSIVE RowsOutOf(_, _)
RowsOutOf(rows, k) ==
    IF k = 0 THEN {{}}
    ELSE UNION {{rest \cup {r} : rest \in RowsOutOf({q \in rows : q > r}, k - 1)} :
                   r \in rows}

\* A query without its LIMIT.
BatchQueryUnlimited ==
    /\ b_pc = "idle"
    /\ b_pass \in Passes
    /\ b_ready' = b_due
    /\ b_done' = {}
    /\ b_pc' = "loop"
    /\ UNCHANGED <<b_pass, b_due>>
    /\ UNCHANGED engineVars
    /\ UNCHANGED dispVars
    /\ UNCHANGED mainVars
    /\ UNCHANGED scoreVars
    /\ UNCHANGED pipeVars
    /\ UNCHANGED clientVars
    /\ UNCHANGED adjVars
    /\ UNCHANGED handleVars
    /\ UNCHANGED authVars

\* The query of the pass: none of the three has an ORDER BY, so the rows
\* left out when more are due than the limit are any of the due rows.
BatchQuery ==
    /\ b_pc = "idle"
    /\ b_pass \in Passes
    /\ \E left \in RowsOutOf(b_due, Max(Cardinality(b_due) - LimitOf(b_pass), 0)) :
           b_ready' = b_due \ left
    /\ b_done' = {}
    /\ b_pc' = "loop"
    /\ UNCHANGED <<b_pass, b_due>>
    /\ UNCHANGED engineVars
    /\ UNCHANGED dispVars
    /\ UNCHANGED mainVars
    /\ UNCHANGED scoreVars
    /\ UNCHANGED pipeVars
    /\ UNCHANGED clientVars
    /\ UNCHANGED adjVars
    /\ UNCHANGED handleVars
    /\ UNCHANGED authVars

\* One turn of the loop over the rows returned, taken in the order of the
\* list (here the order of the ids): the row is handled.
BatchHandle ==
    /\ b_pc = "loop"
    /\ b_ready \ b_done # {}
    /\ LET row == CHOOSE r \in b_ready \ b_done : \A q \in b_ready \ b_done : r <= q
       IN  b_done' = b_done \cup {row}
    /\ UNCHANGED <<b_pass, b_due, b_ready, b_pc>>
    /\ UNCHANGED engineVars
    /\ UNCHANGED dispVars
    /\ UNCHANGED mainVars
    /\ UNCHANGED scoreVars
    /\ UNCHANGED pipeVars
    /\ UNCHANGED clientVars
    /\ UNCHANGED adjVars
    /\ UNCHANGED handleVars
    /\ UNCHANGED authVars

\* The loop is over and the pass returns.  The rows it handled have been
\* advanced or sent and are no longer due; the others are as they were, for
\* the run that the scheduler starts next.
BatchReturn ==
    /\ b_pc = "loop"
    /\ b_ready \ b_done = {}
    /\ b_due' = b_due \ b_done
    /\ b_ready' = {}
    /\ b_done' = {}
    /\ b_pc' = "idle"
    /\ UNCHANGED b_pass
    /\ UNCHANGED engineVars
    /\ UNCHANGED dispVars
    /\ UNCHANGED mainVars
    /\ UNCHANGED scoreVars
    /\ UNCHANGED pipeVars
    /\ UNCHANGED clientVars
    /\ UNCHANGED adjVars
    /\ UNCHANGED handleVars
    /\ UNCHANGED authVars

----------------------------------------------------------------------------
(* _process_enrollment, statement by statement *)

\* One call of _process_enrollment followed through its statements: the
\* query for the step, the queries for the lead and the template, the
\* conditions, the rendering and the commit of the Email row, the update
\* of the enrollment.  h_calls lists what the call has done so far.

\* The for loop of process_sequences hands a due enrollment to
\* _process_enrollment.
HandleStart(e) ==
    /\ h_pc = "idle"
    /\ e \in ReadyEnrollments
    /\ h_pc' = "step"
    /\ h_id' = e
    /\ h_calls' = <<>>
    /\ h_out' = "none"
    /\ UNCHANGED <<enrollments, emails>>
    /\ UNCHANGED <<now, ticks, epc, eargs, eret, ppc, batch, fresh, cur, stats>>
    /\ UNCHANGED dispVars
    /\ UNCHANGED mainVars
    /\ UNCHANGED scoreVars
    /\ UNCHANGED pipeVars
    /\ UNCHANGED clientVars
    /\ UNCHANGED batchVars
    /\ UNCHANGED adjVars
    /\ UNCHANGED authVars

\* step = db.query(SequenceStep)...first(); "if not step": the sequence is
\* completed and the call returns.
StepQuery ==
    /\ h_pc = "step"
    /\ h_calls' = Append(h_calls, "step_query")
    /\ LET row == enrollments[h_id]
       IN  IF ~HasStep(row.sequence_id, row.current_step)
           THEN /\ enrollments' = [enrollments EXCEPT
                       ![h_id].status = COMPLETED,
                       ![h_id].completed_at = now]
                /\ h_pc' = "idle"
                /\ h_out' = "completed"
           ELSE /\ enrollments' = enrollments
                /\ h_pc' = "lookup"
                /\ h_out' = h_out
    /\ UNCHANGED <<h_id, emails>>
    /\ UNCHANGED <<now, ticks, epc, eargs, eret, ppc, batch, fresh, cur, stats>>
    /\ UNCHANGED dispVars
    /\ UNCHANGED mainVars
    /\ UNCHANGED scoreVars
    /\ UNCHANGED pipeVars
    /\ UNCHANGED clientVars
    /\ UNCHANGED batchVars
    /\ UNCHANGED adjVars
    /\ UNCHANGED authVars

\* lead = db.query(Lead)...first(); template = db.query(EmailTemplate)
\* ...first(); "if not lead or not template": the error is logged and the
\* call returns.  lead and template tell whether the row was found.
LeadAndTemplateQuery(lead, template) ==
    /\ h_pc = "lookup"
    /\ h_calls' = Append(h_calls, "lead_template_query")
    /\ IF ~lead \/ ~template
       THEN /\ h_pc' = "idle"
            /\ h_out' = "not_found"
       ELSE /\ h_pc' = "check"
            /\ h_out' = h_out
    /\ UNCHANGED <<h_id, enrollments, emails>>
    /\ UNCHANGED <<now, ticks, epc, eargs, eret, ppc, batch, fresh, cur, stats>>
    /\ UNCHANGED dispVars
    /\ UNCHANGED mainVars
    /\ UNCHANGED scoreVars
    /\ UNCHANGED pipeVars
    /\ UNCHANGED clientVars
    /\ UNCHANGED batchVars
    /\ UNCHANGED adjVars
    /\ UNCHANGED authVars

\* The step is rendered whatever _check_step_conditions returned.
RenderWhateverConditions(ok) ==
    /\ h_pc = "check"
    /\ LET row == enrollments[h_id]
       IN  ~ok => StepOf(row.sequence_id, row.current_step).has_conditions
    /\ h_calls' = Append(h_calls, IF ok THEN "conditions_passed"
                                        ELSE "conditions_failed")
    /\ h_pc' = "render"
    /\ UNCHANGED <<h_id, h_out, enrollments, emails>>
    /\ UNCHANGED <<now, ticks, epc, eargs, eret, ppc, batch, fresh, cur, stats>>
    /\ UNCHANGED dispVars
    /\ UNCHANGED mainVars
    /\ UNCHANGED scoreVars
    /\ UNCHANGED pipeVars
    /\ UNCHANGED clientVars
    /\ UNCHANGED batchVars
    /\ UNCHANGED adjVars
    /\ UNCHANGED authVars

\* "if not self._check_step_conditions(step, lead, enrollment)": ok is what
\* _check_step_conditions returns, which is True for a step that has no
\* condition.  On False _advance_to_next_step moves the enrollment to the
\* next step and the call returns.
CheckStepConditions(ok) ==
    /\ h_pc = "check"
    /\ LET row == enrollments[h_id]
       IN  /\ ~ok => StepOf(row.sequence_id, row.current_step).has_conditions
           /\ IF ok
              THEN /\ h_calls' = Append(h_calls, "conditions_passed")
                   /\ enrollments' = enrollments
                   /\ h_pc' = "render"
                   /\ h_out' = h_out
              ELSE /\ h_calls' = Append(h_calls, "conditions_failed")
                   /\ enrollments' = [enrollments EXCEPT
                          ![h_id].current_step = row.current_step + 1,
                          ![h_id].next_email_at = CalculateNextEmailTime(
                              EmailSequences[row.sequence_id],
                              row.current_step + 1, now)]
                   /\ h_pc' = "idle"
                   /\ h_out' = "skipped"
    /\ UNCHANGED <<h_id, emails>>
    /\ UNCHANGED <<now, ticks, epc, eargs, eret, ppc, batch, fresh, cur, stats>>
    /\ UNCHANGED dispVars
    /\ UNCHANGED mainVars
    /\ UNCHANGED scoreVars
    /\ UNCHANGED pipeVars
    /\ UNCHANGED clientVars
    /\ UNCHANGED batchVars
    /\ UNCHANGED adjVars
    /\ UNCHANGED authVars

\* _create_email_from_template up to the rendering: the merge data, the
\* Email object, template_engine.render_template and the rendering of the
\* subject.  When one of them raises, the except clause logs the error and
\* returns None, and _process_enrollment returns at "if email:".
RenderTemplate(raises) ==
    /\ h_pc = "render"
    /\ h_calls' = Append(h_calls, "render")
    /\ IF raises
       THEN /\ h_pc' = "idle"
            /\ h_out' = "no_email"
       ELSE /\ h_pc' = "commit"
            /\ h_out' = h_out
    /\ UNCHANGED <<h_id, enrollments, emails>>
    /\ UNCHANGED <<now, ticks, epc, eargs, eret, ppc, batch, fresh, cur, stats>>
    /\ UNCHANGED dispVars
    /\ UNCHANGED mainVars
    /\ UNCHANGED scoreVars
    /\ UNCHANGED pipeVars
    /\ UNCHANGED clientVars
    /\ UNCHANGED batchVars
    /\ UNCHANGED adjVars
    /\ UNCHANGED authVars

\* A failed commit of the Email row that advances the enrollment all the
\* same.
CommitEmailAdvancingOnFailure(raises) ==
    /\ h_pc = "commit"
    /\ h_calls' = Append(h_calls, "commit")
    /\ IF raises
       THEN /\ h_pc' = "idle"
            /\ h_out' = "no_email"
            /\ emails' = emails
            /\ enrollments' = [enrollments EXCEPT
                   ![h_id].current_step = enrollments[h_id].current_step + 1]
       ELSE /\ Len(emails) < MaxEmails
            /\ emails' = Append(emails,
                   NewEmail(h_id, enrollments[h_id].current_step, now))
            /\ h_pc' = "update"
            /\ h_out' = h_out
            /\ enrollments' = enrollments
    /\ UNCHANGED h_id
    /\ UNCHANGED <<now, ticks, epc, eargs, eret, ppc, batch, fresh, cur, stats>>
    /\ UNCHANGED dispVars
    /\ UNCHANGED mainVars
    /\ UNCHANGED scoreVars
    /\ UNCHANGED pipeVars
    /\ UNCHANGED clientVars
    /\ UNCHANGED batchVars
    /\ UNCHANGED adjVars
    /\ UNCHANGED authVars

\* db.add(email); db.commit(); db.refresh(email); return email.  When the
\* commit raises no row is stored, the except clause returns None and
\* _process_enrollment returns at "if email:".
CommitEmail(raises) ==
    /\ h_pc = "commit"
    /\ h_calls' = Append(h_calls, "commit")
    /\ IF raises
       THEN /\ h_pc' = "idle"
            /\ h_out' = "no_email"
            /\ emails' = emails
       ELSE /\ Len(emails) < MaxEmails
            /\ emails' = Append(emails,
                   NewEmail(h_id, enrollments[h_id].current_step, now))
            /\ h_pc' = "update"
            /\ h_out' = h_out
    /\ UNCHANGED <<h_id, enrollments>>
    /\ UNCHANGED <<now, ticks, epc, eargs, eret, ppc, batch, fresh, cur, stats>>
    /\ UNCHANGED dispVars
    /\ UNCHANGED mainVars
    /\ UNCHANGED scoreVars
    /\ UNCHANGED pipeVars
    /\ UNCHANGED clientVars
    /\ UNCHANGED batchVars
    /\ UNCHANGED adjVars
    /\ UNCHANGED authVars

\* "if email:": the enrollment is advanced and committed.
AdvanceAfterEmail ==
    /\ h_pc = "update"
    /\ h_calls' = Append(h_calls, "update")
    /\ LET row == enrollments[h_id]
       IN  enrollments' = [enrollments EXCEPT
               ![h_id].current_step = row.current_step + 1,
               ![h_id].emails_sent = row.emails_sent + 1,
               ![h_id].next_email_at = CalculateNextEmailTime(
                   EmailSequences[row.sequence_id],
                   row.current_step + 1, now)]
    /\ h_pc' = "idle"
    /\ h_out' = "scheduled"
    /\ UNCHANGED <<h_id, emails>>
    /\ UNCHANGED <<now, ticks, epc, eargs, eret, ppc, batch, fresh, cur, stats>>
    /\ UNCHANGED dispVars
    /\ UNCHANGED mainVars
    /\ UNCHANGED scoreVars
    /\ UNCHANGED pipeVars
    /\ UNCHANGED clientVars
    /\ UNCHANGED batchVars
    /\ UNCHANGED adjVars
    /\ UNCHANGED authVars

----------------------------------------------------------------------------
(* Login: AuthManager.authenticate_user (crm/auth) *)

\* "if user.login_attempts >= 5"
MaxLoginAttempts == 5

\* timedelta(minutes=30)
LockMinutes == 30

\* Calls of authenticate_user the model follows.
MaxAuthCalls == 8

\* Times the clock is advanced between calls.
MaxWaits == 3

\* Minutes that go by between two calls.
AuthWaits == {10, 30}

\* The email of the user stored, and one no user has.
UserEmail == "test@example.com"

AuthEmails == {UserEmail, "other@example.com"}

\* "user.locked_until and user.locked_until > datetime.utcnow()"
Locked(u, utcnow) == u.locked_until # NULL /\ u.locked_until > utcnow

\* What authenticate_user does to the row and what it returns; password_ok
\* is the value of verify_password(password, user.hashed_password).
AuthResult(u, email, password_ok, utcnow, threshold) ==
    IF email # UserEmail \/ ~u.is_active \/ Locked(u, utcnow)
    THEN [user |-> u, value |-> "None"]
    ELSE IF ~password_ok
    THEN [user |-> [u EXCEPT
                       !.login_attempts = u.login_attempts + 1,
                       !.locked_until =
                           IF u.login_attempts + 1 >= threshold
                           THEN utcnow + LockMinutes
                           ELSE u.locked_until],
          value |-> "None"]
    ELSE [user |-> [u EXCEPT !.login_attempts = 0,
                             !.locked_until = NULL,
                             !.last_login = utcnow],
          value |-> "User"]

\* The account locked by the sixth wrong password.
AuthenticateUserLockingLate(email, password_ok) ==
    /\ auth_calls < MaxAuthCalls
    /\ auth_calls' = auth_calls + 1
    /\ LET r == AuthResult(user, email, password_ok, now, MaxLoginAttempts + 1)
       IN  /\ user' = r.user
           /\ auth_ret' = [email |-> email, password_ok |-> password_ok,
                           value |-> r.value]
    /\ auth_wrong' = IF email # UserEmail THEN auth_wrong
                     ELSE IF password_ok THEN 0 ELSE auth_wrong + 1
    /\ UNCHANGED <<now, ticks>>
    /\ UNCHANGED <<enrollments, emails, epc, eargs, eret, ppc, batch, fresh, cur, stats>>
    /\ UNCHANGED dispVars
    /\ UNCHANGED mainVars
    /\ UNCHANGED scoreVars
    /\ UNCHANGED pipeVars
    /\ UNCHANGED clientVars
    /\ UNCHANGED batchVars
    /\ UNCHANGED handleVars
    /\ UNCHANGED adjVars

\* AuthManager.authenticate_user(db, email, password): the query, the
\* checks, the update of the row and its commit.
AuthenticateUser(email, password_ok) ==
    /\ auth_calls < MaxAuthCalls
    /\ auth_calls' = auth_calls + 1
    /\ LET r == AuthResult(user, email, password_ok, now, MaxLoginAttempts)
       IN  /\ user' = r.user
           /\ auth_ret' = [email |-> email, password_ok |-> password_ok,
                           value |-> r.value]
    /\ auth_wrong' = IF email # UserEmail THEN auth_wrong
                     ELSE IF password_ok THEN 0 ELSE auth_wrong + 1
    /\ UNCHANGED <<now, ticks>>
    /\ UNCHANGED <<enrollments, emails, epc, eargs, eret, ppc, batch, fresh, cur, stats>>
    /\ UNCHANGED dispVars
    /\ UNCHANGED mainVars
    /\ UNCHANGED scoreVars
    /\ UNCHANGED pipeVars
    /\ UNCHANGED clientVars
    /\ UNCHANGED batchVars
    /\ UNCHANGED handleVars
    /\ UNCHANGED adjVars

\* Time goes by between two calls.
AuthWait(minutes) ==
    /\ ticks < MaxWaits
    /\ ticks' = ticks + 1
    /\ now' = now + minutes
    /\ UNCHANGED authVars
    /\ UNCHANGED <<enrollments, emails, epc, eargs, eret, ppc, batch, fresh, cur, stats>>
    /\ UNCHANGED dispVars
    /\ UNCHANGED mainVars
    /\ UNCHANGED scoreVars
    /\ UNCHANGED pipeVars
    /\ UNCHANGED clientVars
    /\ UNCHANGED batchVars
    /\ UNCHANGED handleVars
    /\ UNCHANGED adjVars

----------------------------------------------------------------------------
(* The engine *)

DispIdle ==
    /\ dpc = [d \in DispatchProcs |-> "idle"]
    /\ dbatch = [d \in DispatchProcs |-> {}]
    /\ dcur = [d \in DispatchProcs |-> NoDelivery]
    /\ sends = [k \in 1..MaxEmails |-> 0]

ScoreIdle ==
    /\ sc_profile = NoProfile
    /\ sc_pc = "off"
    /\ sc_result = NoScoreResult
    /\ cl_a = 0
    /\ cl_b = 0
    /\ cl_out = <<>>

PipeIdle ==
    /\ pipeline_leads = <<>>
    /\ q_pc = "idle"
    /\ q_limit = 0
    /\ q_selected = <<>>
    /\ q_results = <<>>
    /\ q_arg = 0
    /\ q_ret = NoQualification
    /\ crm_leads = <<>>
    /\ crm_ret = NoResponse
    /\ crm_deleted = {}

BatchIdle ==
    /\ b_pass = "none"
    /\ b_due = {}
    /\ b_ready = {}
    /\ b_done = {}
    /\ b_pc = "idle"

\* User(...) as it is inserted: is_active and login_attempts take their
\* column defaults, locked_until and last_login are null.
NewUser ==
    [is_active |-> TRUE, login_attempts |-> 0, locked_until |-> NULL,
     last_login |-> NULL]

NoCall == [email |-> "none", password_ok |-> FALSE, value |-> "none"]

AuthIdle ==
    /\ user = NewUser
    /\ auth_ret = NoCall
    /\ auth_wrong = 0
    /\ auth_calls = 0

HandleIdle ==
    /\ h_pc = "idle"
    /\ h_id = 0
    /\ h_calls = <<>>
    /\ h_out = "none"

EngineIdle ==
    /\ now = StartTime
    /\ ticks = 0
    /\ enrollments = <<>>
    /\ emails = <<>>
    /\ epc = [p \in EnrollProcs |-> "idle"]
    /\ eargs = [p \in EnrollProcs |-> NoArgs]
    /\ eret = [p \in EnrollProcs |-> "none"]
    /\ ppc = [p \in PassProcs |-> "idle"]
    /\ batch = [p \in PassProcs |-> {}]
    /\ fresh = [p \in PassProcs |-> FALSE]
    /\ cur = [p \in PassProcs |-> NoItem]
    /\ stats = [p \in PassProcs |-> NoStats]

AdjIdle ==
    /\ adj_in = 0
    /\ adj_sched = DefaultSchedule
    /\ adj_out = NULL
    /\ adj_out2 = NULL
    /\ adj_pc = "off"
    /\ adj_turns = 0

Init ==
    /\ now = StartTime
    /\ ticks = 0
    /\ enrollments = <<>>
    /\ emails = <<>>
    /\ epc = [p \in EnrollProcs |-> "idle"]
    /\ eargs = [p \in EnrollProcs |-> NoArgs]
    /\ eret = [p \in EnrollProcs |-> "none"]
    /\ ppc = [p \in PassProcs |-> "idle"]
    /\ batch = [p \in PassProcs |-> {}]
    /\ fresh = [p \in PassProcs |-> FALSE]
    /\ cur = [p \in PassProcs |-> NoItem]
    /\ stats = [p \in PassProcs |-> NoStats]
    /\ DispIdle
    /\ MainIdle
    /\ ScoreIdle
    /\ AdjIdle
    /\ PipeIdle
    /\ BatchIdle
    /\ HandleIdle
    /\ AuthIdle

Next ==
    \/ \E p \in EnrollProcs, l \in LeadIds, s \in SequenceIds :
           EnrollCheck(p, l, s)
    \/ \E p \in EnrollProcs : EnrollInsert(p)
    \/ \E p \in PassProcs : ProcessSequencesQuery(p)
    \/ \E p \in PassProcs, ok \in BOOLEAN : ProcessEnrollment(p, ok)
    \/ \E p \in PassProcs : UpdateEnrollment(p)
    \/ Tick

Spec == Init /\ [][Next]_vars

\* One process_sequences worker on its own, which may be killed during a pass
\* and may meet enrollments whose processing raises, with enrollments being
\* created meanwhile.
PassWorker == "beat"

NextPass ==
    \/ \E p \in EnrollProcs, l \in LeadIds, s \in SequenceIds :
           EnrollCheck(p, l, s)
    \/ \E p \in EnrollProcs : EnrollInsert(p)
    \/ ProcessSequencesQuery(PassWorker)
    \/ \E ok \in BOOLEAN : ProcessEnrollment(PassWorker, ok)
    \/ ProcessEnrollmentRaises(PassWorker)
    \/ UpdateEnrollment(PassWorker)
    \/ Abort(PassWorker)
    \/ Tick

SpecPass == Init /\ [][NextPass]_vars

\* One process_sequences worker on its own, with enrollments being created
\* and stopped meanwhile.
NextStop ==
    \/ \E p \in EnrollProcs, l \in LeadIds, s \in SequenceIds :
           EnrollCheck(p, l, s)
    \/ \E p \in EnrollProcs : EnrollInsert(p)
    \/ ProcessSequencesQuery(PassWorker)
    \/ \E ok \in BOOLEAN : ProcessEnrollment(PassWorker, ok)
    \/ UpdateEnrollment(PassWorker)
    \/ \E i \in 1..MaxEnrollments, reason \in StopReasons : Stop(i, reason)
    \/ Tick

SpecStop == Init /\ [][NextStop]_vars

\* One enroll caller and one process_sequences worker producing the emails
\* that the send_scheduled_emails runs deliver.
EnrollCaller == "trigger"

NextDispatch ==
    \/ \E l \in LeadIds, s \in SequenceIds : EnrollCheck(EnrollCaller, l, s)
    \/ EnrollInsert(EnrollCaller)
    \/ ProcessSequencesQuery(PassWorker)
    \/ \E ok \in BOOLEAN : ProcessEnrollment(PassWorker, ok)
    \/ UpdateEnrollment(PassWorker)
    \/ \E d \in DispatchProcs : SendQuery(d)
    \/ \E d \in DispatchProcs, success \in BOOLEAN : DeliverEmail(d, success)
    \/ \E d \in DispatchProcs : RecordOutcome(d)
    \/ \E d \in DispatchProcs : DispatcherCrash(d)
    \/ Tick

SpecDispatch == Init /\ [][NextDispatch]_vars

\* main.py: leads being posted, the process_pending_sequences job and the
\* SendGrid webhook.
NextMain ==
    \/ \E l \in MainLeads : CreateLead(l)
    \/ ProcessPendingQuery
    \/ \E response \in Responses : Post(response)
    \/ LogResult
    \/ UpdateProgress
    \/ \E event \in WebhookEvents : Webhook(event)
    \/ Tick

SpecMain == Init /\ [][NextMain]_vars

----------------------------------------------------------------------------
(* Properties of enrollment and processing *)

\* Caller p starts a call of enroll_lead_in_sequence in this step.
EnrollCalled(p) ==
    /\ epc[p] = "idle"
    /\ \/ eargs'[p] # eargs[p]
       \/ eret'[p] # eret[p]
       \/ epc'[p] # epc[p]

ActiveRows(lead_id, sequence_id) ==
    {i \in DOMAIN enrollments :
        /\ enrollments[i].lead_id = lead_id
        /\ enrollments[i].sequence_id = sequence_id
        /\ enrollments[i].status = ACTIVE}

\* C1: a call of enroll_lead_in_sequence made while an ACTIVE enrollment of
\* the same (lead, sequence) pair is stored returns False and leaves the
\* enrollment rows as they were.
C1_DuplicateEnrollRejected ==
    [][\A p \in EnrollProcs :
          (/\ EnrollCalled(p)
           /\ ActiveRows(eargs'[p].lead_id, eargs'[p].sequence_id) # {})
          => (/\ eret'[p] = "False"
              /\ epc'[p] = "idle"
              /\ enrollments' = enrollments)]_vars

\* One caller has enrolled lead 1 in sequence 1, the other caller's call for
\* the same pair has returned False, and one row is stored.
C1_Witness ==
    \E p, q \in EnrollProcs :
        /\ p # q
        /\ eargs[p] = [lead_id |-> 1, sequence_id |-> 1]
        /\ eret[p] = "True"
        /\ eargs[q] = [lead_id |-> 1, sequence_id |-> 1]
        /\ eret[q] = "False"
        /\ epc[q] = "idle"
        /\ Len(enrollments) = 1
        /\ enrollments[1].status = ACTIVE

\* The pair is one for which enroll_lead_in_sequence has to fail: an ACTIVE
\* enrollment of the pair is stored, the sequence or the lead is not stored,
\* or the lead's grade is not among the grades the sequence targets.
EnrollMustFail(lead_id, sequence_id) ==
    \/ ActiveRows(lead_id, sequence_id) # {}
    \/ sequence_id \notin DOMAIN EmailSequences
    \/ lead_id \notin DOMAIN Leads
    \/ /\ EmailSequences[sequence_id].target_grades # {}
       /\ Leads[lead_id].grade
              \notin EmailSequences[sequence_id].target_grades

\* C11: a call of enroll_lead_in_sequence that fails (duplicate ACTIVE
\* enrollment, lead or sequence not found, targeting mismatch) returns the
\* value False, raising nothing, and leaves the enrollment rows unchanged.
C11_FailedEnrollReturnsFalse ==
    [][\A p \in EnrollProcs :
          (/\ EnrollCalled(p)
           /\ EnrollMustFail(eargs'[p].lead_id, eargs'[p].sequence_id))
          => (/\ eret'[p] = "False"
              /\ epc'[p] = "idle"
              /\ enrollments' = enrollments)]_vars

\* One caller's enrollment of the cold lead 2 has returned False (targeting
\* mismatch), the other caller's enrollment of the unknown lead 3 has
\* returned False (not found), and no row has been stored for either.
C11_Witness ==
    \E p, q \in EnrollProcs :
        /\ eargs[p].lead_id = 2
        /\ eret[p] = "False"
        /\ epc[p] = "idle"
        /\ eargs[q].lead_id = 3
        /\ eret[q] = "False"
        /\ epc[q] = "idle"
        /\ \A i \in DOMAIN enrollments : enrollments[i].lead_id = 1

\* C2: in every reachable state at most one ACTIVE enrollment is stored for
\* each (lead, sequence) pair.
C2_OneActivePerPair ==
    \A l \in LeadIds, s \in SequenceIds : Cardinality(ActiveRows(l, s)) <= 1

\* C3: an enrollment is advanced through a step by one pass only: no step of
\* an enrollment has more than one Email row, also when two passes have
\* loaded the same due enrollment.
C3_OneEmailPerStep ==
    \A i, j \in DOMAIN emails :
        (/\ emails[i].enrollment_id = emails[j].enrollment_id
         /\ emails[i].step_number = emails[j].step_number) => i = j

\* C4: no operation lowers the current_step of an enrollment.
C4_CurrentStepMonotonic ==
    [][\A i \in DOMAIN enrollments :
          enrollments'[i].current_step >= enrollments[i].current_step]_vars

\* C5: an enrollment becomes COMPLETED once, and at that moment its
\* current_step exceeds the largest step number of its sequence.
C5_CompletedOncePastLastStep ==
    [][\A i \in DOMAIN enrollments :
          /\ enrollments[i].status = COMPLETED
                 => enrollments'[i].status = COMPLETED
          /\ (enrollments[i].status # COMPLETED
                 /\ enrollments'[i].status = COMPLETED)
                 => enrollments'[i].current_step
                        > MaxStepNumber(enrollments'[i].sequence_id)]_vars

\* C6: next_email_at of an enrollment is non-null exactly when the enrollment
\* is ACTIVE and its sequence defines a step numbered current_step.
C6_NextEmailAtIffActiveWithStep ==
    \A i \in DOMAIN enrollments :
        (enrollments[i].next_email_at # NULL)
            <=> (/\ enrollments[i].status = ACTIVE
                 /\ HasStep(enrollments[i].sequence_id,
                            enrollments[i].current_step))

\* Worker p finishes handling enrollment e in this step, and the step it
\* handled is the one stored as the enrollment's current_step.
Handled(p, e) ==
    /\ \E item \in batch[p] :
           /\ item.id = e
           /\ batch'[p] = batch[p] \ {item}
           /\ IF ppc[p] = "update"
              THEN cur[p] = [id |-> e,
                             current_step |-> enrollments[e].current_step]
              ELSE LoadedCurrentStep(p, item) = enrollments[e].current_step

\* C7: when a pass has handled an enrollment whose current_step was the last
\* step of its sequence, the enrollment is COMPLETED and its next_email_at
\* is null.
C7_LastStepCompletes ==
    [][\A p \in PassProcs : \A e \in DOMAIN enrollments :
          (/\ Handled(p, e)
           /\ enrollments[e].current_step
                  = MaxStepNumber(enrollments[e].sequence_id))
          => (/\ enrollments'[e].status = COMPLETED
              /\ enrollments'[e].next_email_at = NULL)]_vars

\* Enrollment i has an Email row for step n.
HasEmail(i, n) ==
    \E k \in DOMAIN emails :
        emails[k].enrollment_id = i /\ emails[k].step_number = n

\* C12: with one worker that may be killed at any point of a pass, the next
\* pass resumes correctly: no (enrollment, step) has a second Email row, and
\* no step without conditions is passed over without its Email row.
C12_AbortedPassResumes ==
    /\ \A k, m \in DOMAIN emails :
           (/\ k # m
            /\ emails[k].enrollment_id = emails[m].enrollment_id)
           => emails[k].step_number # emails[m].step_number
    /\ \A i \in DOMAIN enrollments :
           \A n \in 1..(enrollments[i].current_step - 1) :
               (/\ HasStep(enrollments[i].sequence_id, n)
                /\ ~StepOf(enrollments[i].sequence_id, n).has_conditions)
               => HasEmail(i, n)

C19_StopIsIdempotent ==
    [][\A i \in DOMAIN enrollments :
          /\ (enrollments[i].status \in {ACTIVE, PAUSED}
                  /\ enrollments'[i].stopped_at # enrollments[i].stopped_at)
                 => (/\ enrollments'[i].status = STOPPED
                     /\ enrollments'[i].stopped_at = now
                     /\ enrollments'[i].stop_reason \in StopReasons)
          /\ (enrollments[i].status \in {STOPPED, COMPLETED}
                  /\ \E reason \in StopReasons : Stop(i, reason))
                 => enrollments'[i] = enrollments[i]]_vars

\* One enrollment has been stopped after the clock advanced and a COMPLETED
\* one is stored next to it.
C19_Witness ==
    \E i, j \in DOMAIN enrollments :
        /\ enrollments[i].status = STOPPED
        /\ enrollments[i].stopped_at > StartTime
        /\ enrollments[i].stop_reason = "replied"
        /\ enrollments[j].status = COMPLETED
        /\ enrollments[j].stopped_at = NULL

\* A transport call is made for email k in this step.
TransportCall(k) == sends'[k] = sends[k] + 1

\* C13: no transport call is made for an email of an (enrollment, step)
\* whose delivery is already marked SENT, whether send_scheduled_emails
\* runs overlap or are killed and started again.
C13_SentStepNotSentAgain ==
    [][\A k \in DOMAIN emails :
          TransportCall(k)
          => ~\E m \in DOMAIN emails :
                 /\ emails[m].enrollment_id = emails[k].enrollment_id
                 /\ emails[m].step_number = emails[k].step_number
                 /\ emails[m].status = SENT]_vars

\* C14: recording a failed delivery leaves the enrollments as they are, and
\* no transport call is made for an email whose delivery has failed.
C14_FailedStepNotRetried ==
    [][\A k \in DOMAIN emails :
          /\ (emails[k].status # BOUNCED /\ emails'[k].status = BOUNCED)
                 => enrollments' = enrollments
          /\ TransportCall(k) => emails[k].status # BOUNCED]_vars

\* C16: when a run records a SENT outcome for an email that is already SENT,
\* the row stays as it was, and no transport call is made for an email
\* that is SENT.
C16_RecordSentTwiceIsNoOp ==
    [][\A k \in DOMAIN emails :
          /\ (\E d \in DispatchProcs :
                  /\ dpc[d] = "record"
                  /\ dcur[d].id = k
                  /\ dcur[d].success
                  /\ dcur'[d] = NoDelivery
                  /\ dbatch'[d] = dbatch[d] \ {k}
                  /\ emails[k].status = SENT)
                 => emails'[k] = emails[k]
          /\ TransportCall(k) => emails[k].status # SENT]_vars

\* C20: once an enrollment is COMPLETED or STOPPED, no operation changes its
\* status or its current_step.
C20_TerminalStatesImmutable ==
    [][\A i \in DOMAIN enrollments :
          enrollments[i].status \in {COMPLETED, STOPPED}
          => (/\ enrollments'[i].status = enrollments[i].status
              /\ enrollments'[i].current_step
                     = enrollments[i].current_step)]_vars

\* The enrollment row that a step appends, when it appends one.
Enrolled == enrollments'[Len(enrollments')]

\* enrollment time + the delay of step 1
StepOneTime(sequence_id, utcnow) ==
    LET step == StepOf(sequence_id, 1)
    IN  utcnow + Timedelta(step.delay_days, step.delay_hours, step.delay_minutes)

C27_SkipAdvancesWithoutEmail ==
    [][\A p \in PassProcs :
          \A item \in batch[p] :
              (ProcessEnrollment(p, FALSE) /\ item \notin batch'[p]) =>
                  LET row == enrollments[item.id]
                  IN  /\ enrollments' = [enrollments EXCEPT
                             ![item.id].current_step = row.current_step + 1,
                             ![item.id].next_email_at = CalculateNextEmailTime(
                                 EmailSequences[row.sequence_id],
                                 row.current_step + 1, now)]
                      /\ emails' = emails]_vars

\* Email rows of a step of an enrollment.
EmailsOfStep(i, n) ==
    {k \in DOMAIN emails : emails[k].enrollment_id = i /\ emails[k].step_number = n}

\* C28: when a pass handles an enrollment it has selected as due, whose
\* current step exists and whose conditions are met, it creates an Email row
\* for that step, the only one of the step, and then moves the enrollment to
\* the next step with emails_sent one higher and next_email_at computed for
\* the new step.
C28_SendCreatesOneEmailAndAdvances ==
    [][\A p \in PassProcs :
          /\ \A item \in batch[p] :
                 (ProcessEnrollment(p, TRUE) /\ cur'[p].id = item.id) =>
                     /\ Len(emails') = Len(emails) + 1
                     /\ SubSeq(emails', 1, Len(emails)) = emails
                     /\ emails'[Len(emails')].enrollment_id = item.id
                     /\ emails'[Len(emails')].step_number = enrollments[item.id].current_step
                     /\ emails'[Len(emails')].status = SCHEDULED
                     /\ enrollments' = enrollments
          /\ UpdateEnrollment(p) =>
                 LET row == enrollments[cur[p].id]
                 IN  /\ Cardinality(EmailsOfStep(cur[p].id, cur[p].current_step)) = 1
                     /\ enrollments' = [enrollments EXCEPT
                            ![cur[p].id].current_step = cur[p].current_step + 1,
                            ![cur[p].id].emails_sent = row.emails_sent + 1,
                            ![cur[p].id].next_email_at = CalculateNextEmailTime(
                                EmailSequences[row.sequence_id],
                                cur[p].current_step + 1, now)]
                     /\ emails' = emails]_vars

----------------------------------------------------------------------------
(* Properties of main.py *)

\* The email_campaigns row that a step inserts, when it inserts one.
Inserted == email_campaigns'[Len(email_campaigns')]

\* C15: when a client.post of send_email is answered with a status code that
\* is neither 202 nor 429, send_email returns a failed result that carries
\* the response text, no further client.post is made for that call, and the
\* email_campaigns row then inserted for the attempt has status failed and
\* the response text as its reason.
C15_TerminalErrorRecordedWithReason ==
    [][/\ Post(Rejected) =>
              /\ mpc' = "log"
              /\ result'.status = "failed"
              /\ result'.error = ResponseText
       /\ result.error = ResponseText => calls' # calls + 1
       /\ (/\ result.error = ResponseText
           /\ Len(email_campaigns') = Len(email_campaigns) + 1) =>
              /\ Inserted.status = "failed"
              /\ Inserted.bounce_reason = result.error]_vars

\* Row k of email_campaigns records a delivery the provider accepted, of the
\* given step to the given lead.
IsDelivery(k, lead_id, step) ==
    /\ email_campaigns[k].lead_id = lead_id
    /\ email_campaigns[k].sequence_step = step
    /\ email_campaigns[k].sendgrid_message_id # NULL

ClientPost == calls' = calls + 1

\* C29: a call of send_email makes at most three client.post calls; it
\* goes on to another one only after a 429 response or an exception, having
\* slept 2^attempt seconds; the third one ends the call; the call ends with
\* a result whose status is sent, failed or error, which is failed or error
\* when the third client.post was answered 429 or raised.
C29_SendEmailRetriesAreBounded ==
    [][ClientPost =>
          /\ calls' <= MaxAttempts
          /\ mpc' = "send" =>
                 /\ Post(RateLimited) \/ Post(Raised)
                 /\ attempt' = attempt + 1
                 /\ slept' = slept + 2 ^ attempt
          /\ calls' = MaxAttempts => mpc' = "log"
          /\ mpc' # "send" =>
                 /\ mpc' = "log"
                 /\ result'.status \in {"sent", "failed", "error"}
          /\ (calls' = MaxAttempts /\ (Post(RateLimited) \/ Post(Raised))) =>
                 /\ result'.status \in {"failed", "error"}
                 /\ result'.message_id = NULL]_vars

\* A call has ended after three client.post calls that were all answered
\* 429, having slept 1 + 2 + 4 seconds.
C29_Witness ==
    /\ mpc = "log"
    /\ calls = MaxAttempts
    /\ slept = 7
    /\ result.status = "failed"
    /\ result.error = MaxRetriesText

\* C38: when the result of send_email is not sent, send_sequence_email
\* adds the campaign row that logs the result and leaves the lead sequence
\* (current_step, next_send_at, status) and the lead as they were; the lead
\* sequence is then still due, and the query of every run of the job
\* returns the lead sequences that are due, each with its current_step.
C38_FailedSendLeavesStepDue ==
    [][/\ (mpc = "log" /\ mpc' = "update" /\ result.status # "sent") =>
              /\ email_campaigns' =
                     Append(email_campaigns,
                            [lead_id |-> Head(pending).lead_id,
                             sequence_step |-> Head(pending).current_step + 1,
                             status |-> result.status,
                             sendgrid_message_id |-> NULL,
                             opened_at |-> NULL,
                             clicked_at |-> NULL,
                             bounce_reason |-> NoReason])
              /\ lead_sequences' = lead_sequences
              /\ leads' = leads
       /\ (mpc = "update" /\ mpc' # "update" /\ result.status # "sent") =>
              /\ lead_sequences' = lead_sequences
              /\ email_campaigns' = email_campaigns
              /\ leads' = leads
              /\ Head(pending).lead_id \in PendingSequences'
              /\ lead_sequences'[Head(pending).lead_id].current_step
                     = Head(pending).current_step
       /\ (mpc = "idle" /\ pending' # pending) =>
              \A l \in PendingSequences :
                  \E k \in DOMAIN pending' :
                      /\ pending'[k].lead_id = l
                      /\ pending'[k].current_step
                             = lead_sequences[l].current_step]_vars

\* A step whose send failed has been attempted again by a later run of the
\* job: two campaign rows log the same step of the same lead, the first
\* with a result that is not sent, and the later run has the lead at the
\* step it was at.
C38_Witness ==
    /\ Len(email_campaigns) = 2
    /\ email_campaigns[1].status \in {"failed", "error"}
    /\ email_campaigns[2].lead_id = email_campaigns[1].lead_id
    /\ email_campaigns[2].sequence_step = email_campaigns[1].sequence_step
    /\ mpc = "update"
    /\ Head(pending).lead_id = email_campaigns[1].lead_id
    /\ Head(pending).current_step + 1 = email_campaigns[1].sequence_step
    /\ lead_sequences[Head(pending).lead_id].status = "active"

\* C39: process_pending_sequences sends no sequence email to a lead whose
\* status is invalid: no client.post is made for such a lead.
C39_NoSendToInvalidLead ==
    [][ClientPost => leads[Head(pending).lead_id] # "invalid"]_vars

----------------------------------------------------------------------------
(* The send-time computation on its own *)

\* Days from which the input timestamps are taken: two weeks less a day.
MaxDay == 6

AdjMinutes == {0, 30, 55}

\* Sending schedules: the default one, a weekend-only one, a single day, every
\* day round the clock, a morning window, and two windows that contain no
\* hour (start equal to end, start after end).
AdjBusinessDays == {{0, 1, 2, 3, 4}, {5, 6}, {2}, 0..6}

AdjBusinessHours == {<<9, 17>>, <<0, 24>>, <<8, 12>>, <<9, 9>>, <<17, 9>>}

\* The sequence whose schedule the computation is run with.
AdjSequence == [EmailSequences[1] EXCEPT !.sending_schedule = adj_sched]

InitAdjust ==
    /\ now = StartTime
    /\ ticks = 0
    /\ enrollments = <<>>
    /\ emails = <<>>
    /\ epc = [p \in EnrollProcs |-> "idle"]
    /\ eargs = [p \in EnrollProcs |-> NoArgs]
    /\ eret = [p \in EnrollProcs |-> "none"]
    /\ ppc = [p \in PassProcs |-> "idle"]
    /\ batch = [p \in PassProcs |-> {}]
    /\ fresh = [p \in PassProcs |-> FALSE]
    /\ cur = [p \in PassProcs |-> NoItem]
    /\ stats = [p \in PassProcs |-> NoStats]
    /\ DispIdle
    /\ MainIdle
    /\ ScoreIdle
    /\ \E d \in 0..MaxDay, h \in 0..23, m \in AdjMinutes :
           adj_in = d * MinutesPerDay + h * MinutesPerHour + m
    /\ \E bd \in AdjBusinessDays, bh \in AdjBusinessHours :
           adj_sched = [business_days |-> bd, business_hours |-> bh]
    /\ adj_out = NULL
    /\ adj_out2 = NULL
    /\ adj_pc = "init"
    /\ adj_turns = 0
    /\ PipeIdle
    /\ BatchIdle
    /\ HandleIdle
    /\ AuthIdle

\* _adjust_for_schedule(adj_in, sequence)
AdjustOnce ==
    /\ adj_pc = "init"
    /\ adj_out' = AdjustForSchedule(adj_in, AdjSequence)
    /\ adj_pc' = "once"
    /\ UNCHANGED <<adj_in, adj_sched, adj_out2, adj_turns>>
    /\ UNCHANGED engineVars
    /\ UNCHANGED dispVars
    /\ UNCHANGED mainVars
    /\ UNCHANGED scoreVars
    /\ UNCHANGED pipeVars
    /\ UNCHANGED clientVars
    /\ UNCHANGED batchVars
    /\ UNCHANGED handleVars
    /\ UNCHANGED authVars

\* _adjust_for_schedule applied to its own result
AdjustTwice ==
    /\ adj_pc = "once"
    /\ adj_out2' = AdjustForSchedule(adj_out, AdjSequence)
    /\ adj_pc' = "twice"
    /\ UNCHANGED <<adj_in, adj_sched, adj_out, adj_turns>>
    /\ UNCHANGED engineVars
    /\ UNCHANGED dispVars
    /\ UNCHANGED mainVars
    /\ UNCHANGED scoreVars
    /\ UNCHANGED pipeVars
    /\ UNCHANGED clientVars
    /\ UNCHANGED batchVars
    /\ UNCHANGED handleVars
    /\ UNCHANGED authVars

\* _calculate_next_email_time(sequence, 1) at the enrollment time adj_in
CalcStepOne ==
    /\ adj_pc = "init"
    /\ adj_out' = CalculateNextEmailTime(AdjSequence, 1, adj_in)
    /\ adj_pc' = "calc"
    /\ UNCHANGED <<adj_in, adj_sched, adj_out2, adj_turns>>
    /\ UNCHANGED engineVars
    /\ UNCHANGED dispVars
    /\ UNCHANGED mainVars
    /\ UNCHANGED scoreVars
    /\ UNCHANGED pipeVars
    /\ UNCHANGED clientVars
    /\ UNCHANGED batchVars
    /\ UNCHANGED handleVars
    /\ UNCHANGED authVars

NextAdjust == AdjustOnce \/ AdjustTwice \/ CalcStepOne

SpecAdjust == InitAdjust /\ [][NextAdjust]_vars

\* The schedule allows some weekday and its hours form a non-empty window
\* within the day.
WellFormedSchedule(schedule) ==
    /\ schedule.business_days \cap (0..6) # {}
    /\ 0 <= schedule.business_hours[1]
    /\ schedule.business_hours[1] < schedule.business_hours[2]
    /\ schedule.business_hours[2] <= 24

\* The timestamp satisfies the delivery window of the schedule.
InWindow(t, schedule) ==
    /\ Weekday(t) \in schedule.business_days
    /\ Hour(t) >= schedule.business_hours[1]
    /\ Hour(t) < schedule.business_hours[2]

\* C8 as stated: for every timestamp and every schedule, adjusting the
\* adjusted timestamp changes nothing.
C8_AdjustIdempotentAnySchedule ==
    adj_pc = "twice" => adj_out2 = adj_out

\* C8: for every timestamp and every schedule whose hours form a non-empty
\* window, adjusting the adjusted timestamp changes nothing.
C8_AdjustIdempotent ==
    (adj_pc = "twice" /\ WellFormedSchedule(adj_sched)) => adj_out2 = adj_out

\* A timestamp outside the window has been moved by the first adjustment and
\* the second adjustment has been applied to the result.
C8_Witness ==
    /\ adj_pc = "twice"
    /\ WellFormedSchedule(adj_sched)
    /\ ~InWindow(adj_in, adj_sched)
    /\ adj_out > adj_in
    /\ adj_out2 = adj_out

\* C9: when the enrollment time plus the delay of step 1 falls on a weekday
\* that is not allowed, the next-action timestamp is the window-start hour
\* of the next allowed weekday.
C9_DisallowedDayLandsOnWindowStart ==
    (/\ adj_pc = "calc"
     /\ WellFormedSchedule(adj_sched)
     /\ Weekday(adj_in + 5) \notin adj_sched.business_days)
    => (/\ adj_out \div MinutesPerDay
               = AdvanceToBusinessDay(adj_in + 5, adj_sched.business_days)
                     \div MinutesPerDay
        /\ Hour(adj_out) = adj_sched.business_hours[1])

\* C10 as stated: for every timestamp and every schedule the adjusted
\* timestamp is not earlier than the input and satisfies the window.
C10_AdjustInWindowAnySchedule ==
    adj_pc = "once" => (adj_out >= adj_in /\ InWindow(adj_out, adj_sched))

\* C10: for every timestamp and every schedule whose hours form a non-empty
\* window, the adjusted timestamp is not earlier than the input and
\* satisfies the window.
C10_AdjustInWindow ==
    (adj_pc = "once" /\ WellFormedSchedule(adj_sched))
    => (adj_out >= adj_in /\ InWindow(adj_out, adj_sched))

\* A timestamp at or after the end of the window on the last allowed day
\* before a day that is not allowed has been adjusted.
C10_Witness ==
    /\ adj_pc = "once"
    /\ WellFormedSchedule(adj_sched)
    /\ Weekday(adj_in) \in adj_sched.business_days
    /\ Hour(adj_in) >= adj_sched.business_hours[2]
    /\ Weekday(adj_in + MinutesPerDay) \notin adj_sched.business_days
    /\ adj_out > adj_in + MinutesPerDay
    /\ InWindow(adj_out, adj_sched)

----------------------------------------------------------------------------
(* The weekday loops of _adjust_for_schedule *)

\* Turns of a weekday loop after which the model stops following it.
MaxTurns == 8

\* Lists of business days: those of the send-time computation, Monday
\* alone, and two that hold no weekday (an empty list, and 7 for a Sunday
\* counted as in isoweekday()).
LoopBusinessDays == AdjBusinessDays \cup {{0}, {}, {7}}

\* _adjust_for_schedule is entered with send_time = adj_in; adj_out is the
\* local variable send_time.
InitLoop ==
    /\ EngineIdle
    /\ DispIdle
    /\ MainIdle
    /\ ScoreIdle
    /\ PipeIdle
    /\ BatchIdle
    /\ HandleIdle
    /\ AuthIdle
    /\ \E d \in 0..MaxDay, h \in 0..23, m \in AdjMinutes :
           adj_in = d * MinutesPerDay + h * MinutesPerHour + m
    /\ \E bd \in LoopBusinessDays, bh \in AdjBusinessHours :
           adj_sched = [business_days |-> bd, business_hours |-> bh]
    /\ adj_out = adj_in
    /\ adj_out2 = NULL
    /\ adj_pc = "first_loop"
    /\ adj_turns = 0

\* A turn of the loop that moves on by a week.
WeekdayLoopTurnByWeek ==
    /\ adj_pc \in {"first_loop", "second_loop"}
    /\ Weekday(adj_out) \notin adj_sched.business_days
    /\ adj_turns < MaxTurns
    /\ adj_out' = adj_out + 7 * MinutesPerDay
    /\ adj_turns' = adj_turns + 1
    /\ UNCHANGED <<adj_in, adj_sched, adj_out2, adj_pc>>
    /\ UNCHANGED engineVars
    /\ UNCHANGED dispVars
    /\ UNCHANGED mainVars
    /\ UNCHANGED scoreVars
    /\ UNCHANGED pipeVars
    /\ UNCHANGED clientVars
    /\ UNCHANGED batchVars
    /\ UNCHANGED handleVars
    /\ UNCHANGED authVars

\* One turn of "while send_time.weekday() not in business_days:
\* send_time = send_time + timedelta(days=1)", in the first loop or in the
\* second.
WeekdayLoopTurn ==
    /\ adj_pc \in {"first_loop", "second_loop"}
    /\ Weekday(adj_out) \notin adj_sched.business_days
    /\ adj_turns < MaxTurns
    /\ adj_out' = adj_out + MinutesPerDay
    /\ adj_turns' = adj_turns + 1
    /\ UNCHANGED <<adj_in, adj_sched, adj_out2, adj_pc>>
    /\ UNCHANGED engineVars
    /\ UNCHANGED dispVars
    /\ UNCHANGED mainVars
    /\ UNCHANGED scoreVars
    /\ UNCHANGED pipeVars
    /\ UNCHANGED clientVars
    /\ UNCHANGED batchVars
    /\ UNCHANGED handleVars
    /\ UNCHANGED authVars

\* The first loop is left and the hour is adjusted: before the window the
\* hour is set to its start and the function returns, at or after its end
\* send_time moves to the start hour of the next day and the second loop
\* is entered, within the window the function returns.
AdjustHour ==
    /\ adj_pc = "first_loop"
    /\ Weekday(adj_out) \in adj_sched.business_days
    /\ LET business_hours == adj_sched.business_hours
       IN  IF Hour(adj_out) < business_hours[1]
           THEN /\ adj_out' = ReplaceHour(adj_out, business_hours[1])
                /\ adj_pc' = "done"
                /\ adj_turns' = adj_turns
           ELSE IF Hour(adj_out) >= business_hours[2]
           THEN /\ adj_out' = ReplaceHour(adj_out + MinutesPerDay,
                                          business_hours[1])
                /\ adj_pc' = "second_loop"
                /\ adj_turns' = 0
           ELSE /\ adj_out' = adj_out
                /\ adj_pc' = "done"
                /\ adj_turns' = adj_turns
    /\ UNCHANGED <<adj_in, adj_sched, adj_out2>>
    /\ UNCHANGED engineVars
    /\ UNCHANGED dispVars
    /\ UNCHANGED mainVars
    /\ UNCHANGED scoreVars
    /\ UNCHANGED pipeVars
    /\ UNCHANGED clientVars
    /\ UNCHANGED batchVars
    /\ UNCHANGED handleVars
    /\ UNCHANGED authVars

\* The second loop is left: return send_time.
AdjustReturn ==
    /\ adj_pc = "second_loop"
    /\ Weekday(adj_out) \in adj_sched.business_days
    /\ adj_pc' = "done"
    /\ UNCHANGED <<adj_in, adj_sched, adj_out, adj_out2, adj_turns>>
    /\ UNCHANGED engineVars
    /\ UNCHANGED dispVars
    /\ UNCHANGED mainVars
    /\ UNCHANGED scoreVars
    /\ UNCHANGED pipeVars
    /\ UNCHANGED clientVars
    /\ UNCHANGED batchVars
    /\ UNCHANGED handleVars
    /\ UNCHANGED authVars

NextLoop == WeekdayLoopTurn \/ AdjustHour \/ AdjustReturn

\* The function, once called, goes on running.
SpecLoop == InitLoop /\ [][NextLoop]_vars /\ WF_vars(NextLoop)

\* business_days contains at least one weekday.
SomeWeekdayAllowed == adj_sched.business_days \cap (0..6) # {}

\* C36: when business_days contains a weekday in 0..6, each weekday loop
\* of _adjust_for_schedule makes at most 6 turns, a day each, and the
\* function returns, with what AdjustForSchedule gives for its input.
C36_AdjustTerminates ==
    /\ [](SomeWeekdayAllowed =>
              /\ adj_turns <= 6
              /\ adj_pc = "done" =>
                     adj_out = AdjustForSchedule(adj_in, AdjSequence))
    /\ (SomeWeekdayAllowed ~> adj_pc = "done")

\* The function has returned after its second loop made 6 turns: Wednesday
\* being the only business day, a Wednesday evening becomes the Wednesday
\* after.
C36_Witness ==
    /\ adj_pc = "done"
    /\ adj_turns = 6
    /\ adj_sched.business_days = {2}
    /\ Weekday(adj_in) = 2
    /\ adj_out \div MinutesPerDay = adj_in \div MinutesPerDay + 7

----------------------------------------------------------------------------
(* Properties of lead scoring *)

InitScore ==
    /\ EngineIdle
    /\ DispIdle
    /\ MainIdle
    /\ AdjIdle
    /\ sc_profile \in Profiles
    /\ sc_pc = "called"
    /\ sc_result = NoScoreResult
    /\ cl_a = 0
    /\ cl_b = 0
    /\ cl_out = <<>>
    /\ PipeIdle
    /\ BatchIdle
    /\ HandleIdle
    /\ AuthIdle

NextScore == ScoreProfile

SpecScore == InitScore /\ [][NextScore]_vars

InitClassify ==
    /\ EngineIdle
    /\ DispIdle
    /\ MainIdle
    /\ AdjIdle
    /\ sc_profile = NoProfile
    /\ sc_pc = "off"
    /\ sc_result = NoScoreResult
    /\ cl_a \in Scores
    /\ cl_b \in Scores
    /\ cl_out = <<>>
    /\ PipeIdle
    /\ BatchIdle
    /\ HandleIdle
    /\ AuthIdle

NextClassify == ClassifyBoth

SpecClassify == InitClassify /\ [][NextClassify]_vars

\* A step of sub-scoring raises on the profile.
SubScoringRaises(profile) ==
    \/ AlgorithmicRaises(profile)
    \/ ContextualRaises(profile)
    \/ EstimateRaises(profile)

\* C21: score_profile always returns a dictionary, and whenever a step of
\* sub-scoring raised on the profile the dictionary is the default result:
\* final score 5.0, classification UNKNOWN, confidence 0.5.
C21_ScoringErrorGivesDefault ==
    (sc_pc = "returned" /\ SubScoringRaises(sc_profile)) =>
        /\ sc_result.final_score = Points(5, 0)
        /\ sc_result.classification = "UNKNOWN"
        /\ sc_result.confidence = 50

\* HOT > WARM > COLD > TRASH
TierRank(tier) ==
    IF tier = "HOT" THEN 3
    ELSE IF tier = "WARM" THEN 2
    ELSE IF tier = "COLD" THEN 1
    ELSE 0

\* The tier the thresholds 8.0, 6.5 and 4.0 give a score, each threshold
\* belonging to the higher tier.
TierOf(score) ==
    IF score >= 800 THEN "HOT"
    ELSE IF score >= 650 THEN "WARM"
    ELSE IF score >= 400 THEN "COLD"
    ELSE "TRASH"

\* C22: of two scores the higher one is never classified in a lower tier
\* under HOT > WARM > COLD > TRASH, and the tiers begin at 8.0, 6.5 and 4.0,
\* each of these scores being in the higher tier.
C22_ClassificationMonotonic ==
    cl_out # <<>> =>
        /\ cl_a > cl_b => TierRank(cl_out[1]) >= TierRank(cl_out[2])
        /\ cl_out[1] = TierOf(cl_a)
        /\ cl_out[2] = TierOf(cl_b)

\* A score on a threshold has been classified with a lower score just
\* beneath it.
C22_Witness ==
    /\ cl_out # <<>>
    /\ cl_a = 650
    /\ cl_b = 640
    /\ cl_out = <<"WARM", "COLD">>

----------------------------------------------------------------------------
(* Properties of lead qualification *)

QualifyArgs == 1..(MaxPipelineLeads + 1)

NextQualify ==
    \/ \E data \in LeadData : PipelineCreateLead(data)
    \/ \E lead_id \in QualifyArgs : QualifyLead(lead_id)
    \/ \E limit \in 0..MaxLimit : BulkSelect(limit)
    \/ BulkQualifyNext
    \/ BulkReturn

SpecQualify == Init /\ [][NextQualify]_vars

\* C23: qualify_lead of an id that resolves to no stored lead fails with a
\* not-found error, and writes no score, grade or status to any lead.
C23_QualifyUnknownLeadFails ==
    [][\A lead_id \in QualifyArgs :
           (QualifyLead(lead_id) /\ ~Stored(lead_id)) =>
               /\ q_ret'.raised = "ValueError"
               /\ pipeline_leads' = pipeline_leads]_vars

\* The half of C23 that the code keeps: nothing is written.
QualifyUnknownLeadWritesNothing ==
    [][\A lead_id \in QualifyArgs :
           (QualifyLead(lead_id) /\ ~Stored(lead_id)) =>
               /\ q_ret' = DefaultQualificationResult(lead_id)
               /\ pipeline_leads' = pipeline_leads]_vars

----------------------------------------------------------------------------
(* Properties of the lead CRUD service *)

NextCrud ==
    \/ \E name \in CrmNames : CrmCreateLead(name)
    \/ \E lead_id \in CrmIds : CrmGetLead(lead_id)
    \/ \E lead_id \in CrmIds, data \in CrmUpdates : CrmUpdateLead(lead_id, data)
    \/ \E lead_id \in CrmIds : CrmDeleteLead(lead_id)
    \/ \E lead_id \in CrmIds : CrmQualify(lead_id)

SpecCrud == Init /\ [][NextCrud]_vars

\* A request for an id that is not stored is answered 404 and changes no lead.
UnknownIdIsNotFound ==
    [][\A lead_id \in CrmIds :
           lead_id \notin DOMAIN crm_leads =>
               /\ CrmGetLead(lead_id) => crm_ret'.status_code = 404
               /\ \A data \in CrmUpdates :
                      CrmUpdateLead(lead_id, data) => crm_ret'.status_code = 404
               /\ CrmDeleteLead(lead_id) => crm_ret'.status_code = 404
               /\ (crm_ret'.op \in {"get", "update", "delete"} /\ crm_ret'.lead_id = lead_id) =>
                      crm_leads' = crm_leads]_vars

\* qualify of an id that is not stored raises ValueError and changes no lead.
CrmQualifyUnknownLeadFails ==
    [][\A lead_id \in CrmIds :
           (CrmQualify(lead_id) /\ lead_id \notin DOMAIN crm_leads) =>
               (crm_ret'.raised = "ValueError" /\ crm_leads' = crm_leads)]_vars

\* C25: once delete_lead(id) has succeeded, every later get_lead(id) is
\* answered not found (404); and get, update or delete of an id that is not
\* stored is answered not found and changes no stored lead.
C25_DeletedLeadStaysNotFound ==
    [][/\ \A lead_id \in crm_deleted :
              CrmGetLead(lead_id) => crm_ret'.status_code = 404
       /\ \A lead_id \in CrmIds :
              lead_id \notin DOMAIN crm_leads =>
                  /\ CrmGetLead(lead_id) => crm_ret'.status_code = 404
                  /\ \A data \in CrmUpdates :
                         CrmUpdateLead(lead_id, data) => crm_ret'.status_code = 404
                  /\ CrmDeleteLead(lead_id) => crm_ret'.status_code = 404
                  /\ (crm_ret'.op \in {"get", "update", "delete"} /\ crm_ret'.lead_id = lead_id) =>
                         crm_leads' = crm_leads]_vars

----------------------------------------------------------------------------
(* Properties of the batch limits *)

\* A pass and the rows due to it, up to MaxExcess more than its limit.
InitBatch ==
    /\ EngineIdle
    /\ DispIdle
    /\ MainIdle
    /\ ScoreIdle
    /\ AdjIdle
    /\ PipeIdle
    /\ HandleIdle
    /\ AuthIdle
    /\ b_pass \in Passes
    /\ \E n \in 0..(LimitOf(b_pass) + MaxExcess) : b_due = 1..n
    /\ b_ready = {}
    /\ b_done = {}
    /\ b_pc = "idle"

NextBatch == BatchQuery \/ BatchHandle \/ BatchReturn

SpecBatch == InitBatch /\ [][NextBatch]_vars

\* C30: a pass handles no more rows than its limit (100 enrollments for
\* process_sequences, 50 emails for send_scheduled_emails, 50 sequences
\* for process_pending_sequences) and only rows its query returned; the
\* due rows beyond the limit are not handled by the pass and are due to the
\* next one.
C30_PassHandlesAtMostItsLimit ==
    [][/\ b_done' \subseteq b_ready'
       /\ b_ready' \subseteq b_due'
       /\ Cardinality(b_ready') <= LimitOf(b_pass)
       /\ (b_pc = "idle" /\ b_pc' = "loop") =>
              /\ b_due' = b_due
              /\ Cardinality(b_due \ b_ready') = Max(Cardinality(b_due) - LimitOf(b_pass), 0)
       /\ (b_pc = "loop" /\ b_pc' = "loop") =>
              /\ b_due' = b_due
              /\ b_ready' = b_ready
       /\ (b_pc = "loop" /\ b_pc' = "idle") => b_due' = b_due \ b_ready]_vars

\* process_sequences has handled 100 of 101 due rows; the row its query
\* left out has not been handled and is still due.
C30_Witness ==
    /\ b_pass = "process_sequences"
    /\ b_pc = "loop"
    /\ Cardinality(b_done) = BatchLimit
    /\ Cardinality(b_due \ b_ready) = 1

\* next_email_at (next_send_at in main.py) of a row of the batch passes:
\* the rows are numbered in the order in which they became due, row 1 being
\* the one that has been due the longest.
DueAt(row) == row

\* C31: process_sequences and process_pending_sequences handle the
\* oldest-due rows first: when the limit leaves due rows out of a pass,
\* every row left out has a next_email_at no earlier than that of every
\* row the query of the pass returned.
C31_OldestDueFirst ==
    [][(/\ b_pass \in {"process_sequences", "process_pending_sequences"}
        /\ b_pc = "idle"
        /\ b_pc' = "loop") =>
           \A out \in b_due \ b_ready' : \A in \in b_ready' :
               DueAt(out) >= DueAt(in)]_vars

----------------------------------------------------------------------------
(* Enrollment after an earlier enrollment has ended *)

\* The enrollments of the pair, whatever their status.
RowsOfPair(lead_id, sequence_id) ==
    {i \in DOMAIN enrollments :
        /\ enrollments[i].lead_id = lead_id
        /\ enrollments[i].sequence_id = sequence_id}

\* C37: a call of enroll_lead_in_sequence for a pair whose stored
\* enrollments are all PAUSED, COMPLETED or STOPPED, the sequence and the
\* lead being stored and the lead matching the targeting, goes on to create
\* the enrollment, and its insert stores a new ACTIVE enrollment of the pair
\* at step 1 and returns True.
C37_EndedEnrollmentIsNoDuplicate ==
    [][\A p \in EnrollProcs :
          /\ (/\ EnrollCalled(p)
              /\ RowsOfPair(eargs'[p].lead_id, eargs'[p].sequence_id) # {}
              /\ \A i \in RowsOfPair(eargs'[p].lead_id, eargs'[p].sequence_id) :
                     enrollments[i].status \in {PAUSED, COMPLETED, STOPPED}
              /\ ~EnrollMustFail(eargs'[p].lead_id, eargs'[p].sequence_id))
             => (/\ epc'[p] = "insert"
                 /\ eret'[p] # "False")
          /\ (epc[p] = "insert" /\ epc'[p] # "insert")
             => (/\ eret'[p] = "True"
                 /\ epc'[p] = "idle"
                 /\ Len(enrollments') = Len(enrollments) + 1
                 /\ SubSeq(enrollments', 1, Len(enrollments)) = enrollments
                 /\ enrollments'[Len(enrollments')].lead_id = eargs[p].lead_id
                 /\ enrollments'[Len(enrollments')].sequence_id
                        = eargs[p].sequence_id
                 /\ enrollments'[Len(enrollments')].status = ACTIVE
                 /\ enrollments'[Len(enrollments')].current_step = 1)]_vars

\* Lead 1 has been enrolled in sequence 1 again after its first enrollment
\* was completed: the second enrollment is ACTIVE at step 1.
C37_Witness ==
    /\ Len(enrollments) = 2
    /\ enrollments[1].status = COMPLETED
    /\ enrollments[2].lead_id = enrollments[1].lead_id
    /\ enrollments[2].sequence_id = enrollments[1].sequence_id
    /\ enrollments[2].status = ACTIVE
    /\ enrollments[2].current_step = 1
    /\ \E p \in EnrollProcs : eret[p] = "True" /\ epc[p] = "idle"

\* The same after the first enrollment was stopped.
C37_WitnessStopped ==
    /\ Len(enrollments) = 2
    /\ enrollments[1].status = STOPPED
    /\ enrollments[2].lead_id = enrollments[1].lead_id
    /\ enrollments[2].status = ACTIVE
    /\ enrollments[2].current_step = 1

----------------------------------------------------------------------------
(* The sent counter of an enrollment *)

\* The Email rows created for an enrollment.
EmailsOf(i) == {k \in DOMAIN emails : emails[k].enrollment_id = i}

\* C35: the emails_sent of every enrollment is the number of Email rows
\* created for it and is at most current_step - 1.
C35_SentCounterMatchesEmails ==
    \A i \in DOMAIN enrollments :
        /\ enrollments[i].emails_sent = Cardinality(EmailsOf(i))
        /\ enrollments[i].emails_sent <= enrollments[i].current_step - 1

----------------------------------------------------------------------------
(* Properties of _process_enrollment, statement by statement *)

\* One enroll caller and one call of _process_enrollment at a time, whose
\* lead or template may be missing and whose rendering or commit may fail.
NextHandle ==
    \/ \E l \in LeadIds, s \in SequenceIds : EnrollCheck(EnrollCaller, l, s)
    \/ EnrollInsert(EnrollCaller)
    \/ \E e \in 1..MaxEnrollments : HandleStart(e)
    \/ StepQuery
    \/ \E lead \in BOOLEAN, template \in BOOLEAN :
           LeadAndTemplateQuery(lead, template)
    \/ \E ok \in BOOLEAN : CheckStepConditions(ok)
    \/ \E raises \in BOOLEAN : RenderTemplate(raises)
    \/ \E raises \in BOOLEAN : CommitEmail(raises)
    \/ AdvanceAfterEmail
    \/ Tick

SpecHandle == Init /\ [][NextHandle]_vars

\* The position of the first occurrence of a call in h_calls, 0 when the
\* call has not been made.
FirstCall(call) ==
    IF \E k \in 1..Len(h_calls) : h_calls[k] = call
    THEN CHOOSE k \in 1..Len(h_calls) :
             /\ h_calls[k] = call
             /\ \A j \in 1..(k - 1) : h_calls[j] # call
    ELSE 0

\* C32: a call of _process_enrollment renders the template of a step only
\* after it has evaluated the conditions of the step and they have passed:
\* when it has rendered, "conditions_passed" stands before "render" in what
\* it has done, and a call whose conditions failed renders nothing.
C32_RenderOnlyAfterConditionsPass ==
    /\ FirstCall("render") > 0 =>
           /\ FirstCall("conditions_passed") > 0
           /\ FirstCall("conditions_passed") < FirstCall("render")
    /\ FirstCall("conditions_failed") > 0 => FirstCall("render") = 0
    /\ h_pc \in {"render", "commit", "update"} =>
           FirstCall("conditions_passed") > 0

\* A call has rendered the template of step 1, whose conditions it found
\* met, and has committed the Email row.
C32_Witness ==
    /\ h_pc = "update"
    /\ h_calls = <<"step_query", "lead_template_query", "conditions_passed",
                   "render", "commit">>
    /\ enrollments[h_id].current_step = 1

\* A call whose conditions failed has returned without rendering.
C32_WitnessSkipped ==
    /\ h_out = "skipped"
    /\ h_calls = <<"step_query", "lead_template_query", "conditions_failed">>

C34_WitnessNotFound ==
    /\ h_pc = "idle"
    /\ h_out = "not_found"
    /\ h_calls = <<"step_query", "lead_template_query">>
    /\ enrollments[h_id].status = ACTIVE
    /\ enrollments[h_id].next_email_at <= now

----------------------------------------------------------------------------
(* Progress of an enrollment to the end of its sequence *)

\* The clock advances while an ACTIVE enrollment waits for its send time:
\* the beat schedule starts process_sequences every five minutes, so a pass
\* has handled what was due before a week has gone by.
ClockAdvances ==
    /\ ppc[PassWorker] = "idle"
    /\ ReadyEnrollments = {}
    /\ \E i \in DOMAIN enrollments :
           /\ enrollments[i].status = ACTIVE
           /\ enrollments[i].next_email_at # NULL
           /\ enrollments[i].next_email_at > now
    /\ now' = now + TickMinutes
    /\ ticks' = ticks + 1
    /\ UNCHANGED <<enrollments, emails, epc, eargs, eret,
                   ppc, batch, fresh, cur, stats>>
    /\ UNCHANGED dispVars
    /\ UNCHANGED mainVars
    /\ UNCHANGED adjVars
    /\ UNCHANGED scoreVars
    /\ UNCHANGED pipeVars
    /\ UNCHANGED clientVars
    /\ UNCHANGED batchVars
    /\ UNCHANGED handleVars
    /\ UNCHANGED authVars

\* The Email rows of the model suffice for one more enrollment to go
\* through all the steps of its sequence.
RoomForEnrollment(sequence_id) ==
    MaxStepNumber(sequence_id)
        * (Len(enrollments)
             + Cardinality({q \in EnrollProcs : epc[q] = "insert"}) + 1)
        <= MaxEmails

\* Enrollments are created, and one process_sequences worker whose passes
\* are not interrupted handles them as the clock advances; every lead and
\* template is stored and every Email row is created.
NextLive ==
    \/ \E p \in EnrollProcs, l \in LeadIds, s \in SequenceIds :
           RoomForEnrollment(s) /\ EnrollCheck(p, l, s)
    \/ \E p \in EnrollProcs : EnrollInsert(p)
    \/ ProcessSequencesQuery(PassWorker)
    \/ \E ok \in BOOLEAN : ProcessEnrollment(PassWorker, ok)
    \/ UpdateEnrollment(PassWorker)
    \/ ClockAdvances

\* The beat schedule keeps starting passes, a pass that has started goes
\* through its loop, and the clock keeps advancing.
SpecLive ==
    /\ Init
    /\ [][NextLive]_vars
    /\ WF_vars(ProcessSequencesQuery(PassWorker))
    /\ WF_vars(\E ok \in BOOLEAN : ProcessEnrollment(PassWorker, ok))
    /\ WF_vars(UpdateEnrollment(PassWorker))
    /\ WF_vars(ClockAdvances)

----------------------------------------------------------------------------
(* Properties of the login *)

\* A user, active or not, and the calls of authenticate_user for it, one
\* after the other.
InitAuth ==
    /\ EngineIdle
    /\ DispIdle
    /\ MainIdle
    /\ ScoreIdle
    /\ AdjIdle
    /\ PipeIdle
    /\ BatchIdle
    /\ HandleIdle
    /\ \E active \in BOOLEAN : user = [NewUser EXCEPT !.is_active = active]
    /\ auth_ret = NoCall
    /\ auth_wrong = 0
    /\ auth_calls = 0

NextAuth ==
    \/ \E email \in AuthEmails, password_ok \in BOOLEAN :
           AuthenticateUser(email, password_ok)
    \/ \E minutes \in AuthWaits : AuthWait(minutes)

SpecAuth == InitAuth /\ [][NextAuth]_vars

\* C40: once five calls in a row have given a wrong password for an active
\* user the account is locked, for 30 minutes from the call that made
\* login_attempts reach 5; a call made while locked_until has not passed
\* returns None, with the right password too, and changes no field of the
\* user; a call that returns the user sets login_attempts to 0.
C40_FiveWrongPasswordsLock ==
    [][auth_calls' = auth_calls + 1 =>
          /\ (/\ auth_ret'.email = UserEmail
              /\ ~auth_ret'.password_ok
              /\ auth_wrong' >= MaxLoginAttempts
              /\ user.is_active) =>
                 /\ Locked(user', now')
                 /\ user'.locked_until <= now' + LockMinutes
                 /\ auth_ret'.value = "None"
          /\ (/\ auth_ret'.email = UserEmail
              /\ auth_wrong' = MaxLoginAttempts
              /\ user.is_active
              /\ user'.login_attempts = MaxLoginAttempts
              /\ user' # user) =>
                 user'.locked_until = now' + LockMinutes
          /\ (auth_ret'.email = UserEmail /\ Locked(user, now)) =>
                 /\ auth_ret'.value = "None"
                 /\ user' = user
          /\ auth_ret'.value = "User" =>
                 /\ user'.login_attempts = 0
                 /\ auth_ret'.password_ok]_vars

\* Five wrong passwords have locked the account, and a call with the right
\* password made twenty minutes later has returned None.
C40_Witness ==
    /\ user.is_active
    /\ user.login_attempts = MaxLoginAttempts
    /\ Locked(user, now)
    /\ user.locked_until = now + LockMinutes - 20
    /\ auth_ret = [email |-> UserEmail, password_ok |-> TRUE, value |-> "None"]
    /\ auth_calls = MaxLoginAttempts + 1

====
